---- MODULE Spec2Model ----
(***************************************************************************)
(* Model of the inference server's control plane (endpoint registry,       *)
(* worker lifecycle, gRPC control handlers) and of the Echo worker's data  *)
(* plane (ingress queue, hard batcher, run loop, callbacks), of the        *)
(* InvertVideo worker's run loop, of the echo_multi model's run function,  *)
(* and of the memory pool, Batch, Buffer::write and the model repository,  *)
(* of the gRPC server's CallData state machine and completion-queue        *)
(* thread, of the client's ordered-inference helpers, of the HTTP client's *)
(* asynchronous inference and of VartTensorBuffer::data.                   *)
(***************************************************************************)
EXTENDS Integers, Sequences, FiniteSets, TLC

VARIABLES
  endpoints,   \* registry: set of entries [name, kind, params, refcount, wid]
  mutex,       \* holder of the registry's exclusive lock, or None
  pc,          \* per control thread: position inside load / unload
  cur,         \* per control thread: the entry or worker it is working on
  workers,     \* sequence of worker instances ever created (index = wid)
  ingress,     \* per worker: request queue feeding its batcher
  partial,     \* per worker: the batch the batcher is assembling
  batchq,      \* per worker: batch queue between batcher and run loop
  bpc,         \* per worker: position of the batcher thread
  wpc,         \* per worker: position of the run thread
  wbatch,      \* per worker: batch the run loop is processing
  wj,          \* per worker: index j of the run loop's request loop
  requests,    \* sequence of requests accepted by modelInfer (index = id)
  responses,   \* per request: the responses its callback was invoked with
  cbLog,       \* request ids in the order their callbacks were invoked
  reply,       \* reply of the last finished gRPC call
  hist,        \* per endpoint name: loads that returned it, unloads of it
  loadsLeft,   \* load calls the clients may still issue
  reqLeft,     \* infer calls the clients may still issue
  calls,       \* ModelInfer calls: name, request id, statuses finished with
  drained,     \* request ids that were in an ingress queue when the unload
               \* that stops its worker began
  multi,       \* the echo_multi model's run over one request
  pool,        \* the memory pool: registered allocators and loaned buffers
  bat,         \* a Batch and the new_batch a model's run function fills
  wr,          \* a contiguous buffer and the writes made into it
  repo,        \* the model repository, its listener and the calls it made
  grpc,        \* one completion queue of the gRPC server, its handleRpcs
               \* thread and the CallData instances created on it
  cl,          \* a call of inferAsyncOrdered or inferAsyncOrderedBatched
  http,        \* the futures HttpClient::modelInferAsync has returned
  vt           \* a call of VartTensorBuffer::data

vars == <<endpoints, mutex, pc, cur, workers, ingress, partial, batchq, bpc, wpc,
          wbatch, wj, requests, responses, cbLog, reply, hist, loadsLeft,
          reqLeft, calls, drained, multi, pool, bat, wr, repo, grpc, cl, http,
          vt>>

ctlVars == <<endpoints, mutex, pc, cur, reply, hist, loadsLeft>>
\* the components that are exercised on their own
edgeVars == <<grpc, cl, http, vt>>
unitVars == <<multi, pool, bat, wr, repo, edgeVars>>
dataVars ==
  <<requests, responses, cbLog, reqLeft, calls, drained, unitVars>>
runVars == <<bpc, wpc, wbatch, wj>>

----------------------------------------------------------------------------
(* Bounds *)

MaxLoads == 2
MaxReq == 3

Threads == {"t1", "t2"}

None == "none"

\* queue elements: a request container or the null request, a batch or the
\* null batch
NullRequest == [null |-> TRUE, id |-> 0]
Container(id) == [null |-> FALSE, id |-> id]
NullBatch == [null |-> TRUE, requests |-> <<>>]
Batch(reqs) == [null |-> FALSE, requests |-> reqs]

----------------------------------------------------------------------------
(* Names, parameters, worker plug-ins *)

\* util::toLower as the load / unload handlers apply it to the request's name
ToLower(s) == IF s = "Echo" THEN "echo" ELSE s

\* worker kinds for which a plug-in exists
KnownWorkers == {"echo", "invertvideo"}

\* parameter maps: batch_size 0 stands for "parameter absent"
NoParams == [batch_size |-> 0]
BatchOfTwo == [batch_size |-> 2]
ParamSets == {NoParams, BatchOfTwo}

\* the workerLoad calls the clients issue: <<name, parameters, share>>
LoadInputs ==
  {<<"echo", NoParams, TRUE>>, <<"echo", NoParams, FALSE>>,
   <<"Echo", NoParams, TRUE>>, <<"echo", BatchOfTwo, TRUE>>,
   <<"invertvideo", NoParams, TRUE>>, <<"bogus", NoParams, TRUE>>}

kBatchSize == 1

\* variant: the batch_size parameter is not read
DoInitIgnoresParameter(kind, params) == kBatchSize

\* Echo::doInit / InvertVideo::doInit: the batch size the worker declares
DoInit(kind, params) ==
  IF kind = "echo" /\ params.batch_size # 0 THEN params.batch_size
  ELSE kBatchSize

\* Echo::doAcquire / InvertVideo::doAcquire: the metadata the worker declares
DoAcquire(kind) ==
  IF kind = "echo"
  THEN [inputs  |-> <<[name |-> "input", shape |-> <<1>>, dtype |-> "UINT32"]>>,
        outputs |-> <<[name |-> "output", shape |-> <<1>>, dtype |-> "UINT32"]>>]
  ELSE [inputs  |-> <<[name |-> "input", shape |-> <<128>>, dtype |-> "STRING"]>>,
        outputs |-> <<[name |-> "output", shape |-> <<1080, 1920, 3>>,
                       dtype |-> "INT8"]>>]

NoMetadata == [inputs |-> <<>>, outputs |-> <<>>]

LifecycleStates ==
  <<"Uninitialized", "Initialized", "Acquired", "Running", "Released",
    "Destroyed">>

----------------------------------------------------------------------------
(* Endpoints: the registry *)

Range(s) == {s[i] : i \in DOMAIN s}

Names == {e.name : e \in endpoints}

Entry(name) == CHOOSE e \in endpoints : e.name = name

Exists(name) == \E e \in endpoints : e.name = name

\* endpoint name derived from the worker kind; suffix 0 is the bare kind
NameOf(kind, n) == IF n = 0 THEN kind ELSE kind \o "-" \o ToString(n)

\* the first name derived from kind that no entry uses
UniqueName(kind) ==
  LET free == {n \in 0..Cardinality(endpoints) : NameOf(kind, n) \notin Names}
  IN  NameOf(kind, CHOOSE n \in free : \A m \in free : n <= m)

\* entries a load of (kind, params) may share
SameKey(kind, params) ==
  {e \in endpoints : e.kind = kind /\ e.params = params}

\* the entry a sharing load picks: the oldest one with the key
Shared(kind, params) ==
  CHOOSE e \in SameKey(kind, params) :
    \A f \in SameKey(kind, params) : e.wid <= f.wid

\* whether the load can share an existing entry instead of creating a worker
CanShare(kind, params, share) == share /\ SameKey(kind, params) # {}

\* variant: every unload tears the worker down, whatever the refcount
LastReferenceAlways(e) == TRUE

\* whether the unload that is about to decrement e drops its last reference
LastReference(e) == e.refcount <= 1

\* variant: the registry is entered without taking its mutex
LockFreeRacy == TRUE

\* the registry mutex can be taken (exclusively by load and unload, shared by
\* the read-only lookups)
LockFree == mutex = None

\* Endpoints::list: one name per entry
List ==
  LET n == Cardinality(endpoints)
      es == CHOOSE f \in [1..n -> endpoints] : Range(f) = endpoints
  IN  [i \in 1..n |-> es[i].name]

\* variant: an unknown name is answered with false instead of an error
ModelReadyFalseIfUnknown(name) ==
  IF ~Exists(name) THEN [error |-> None, value |-> FALSE]
  ELSE [error |-> None,
        value |-> workers[Entry(name).wid].state = "Running"]

\* SharedState::modelReady: raises NotFound for an unknown name, else tells
\* whether the worker is Running
ModelReady(name) ==
  IF ~Exists(name) THEN [error |-> "invalid_argument", value |-> FALSE]
  ELSE [error |-> None,
        value |-> workers[Entry(name).wid].state = "Running"]

\* SharedState::modelMetadata: raises NotFound for an unknown name
ModelMetadata(name) ==
  IF ~Exists(name) THEN [error |-> "invalid_argument", value |-> NoMetadata]
  ELSE [error |-> None, value |-> workers[Entry(name).wid].metadata]

NamesUniverse ==
  {NameOf(k, n) : k \in KnownWorkers, n \in 0..MaxLoads}

----------------------------------------------------------------------------
(* gRPC handlers of the read-only control calls *)

\* variant: the catch clauses are tried in the other order, so that
\* std::exception takes every error
HandleModelReadyCatchAll(name) ==
  LET r == ModelReady(name)
  IN  IF r.error = None
      THEN [rpc |-> "ModelReady", arg |-> name, status |-> "OK",
            ready |-> r.value]
      ELSE [rpc |-> "ModelReady", arg |-> name, status |-> "UNKNOWN",
            ready |-> FALSE]

\* CallDataModelReady::handleRequest
HandleModelReady(name) ==
  LET r == ModelReady(name)
  IN  IF r.error = None
      THEN [rpc |-> "ModelReady", arg |-> name, status |-> "OK",
            ready |-> r.value]
      ELSE IF r.error = "invalid_argument"
      THEN [rpc |-> "ModelReady", arg |-> name, status |-> "NOT_FOUND",
            ready |-> FALSE]
      ELSE [rpc |-> "ModelReady", arg |-> name, status |-> "UNKNOWN",
            ready |-> FALSE]

\* CallDataModelMetadata::handleRequest
HandleModelMetadata(name) ==
  LET r == ModelMetadata(name)
  IN  IF r.error = None
      THEN [rpc |-> "ModelMetadata", arg |-> name, status |-> "OK",
            metadata |-> r.value]
      ELSE IF r.error = "invalid_argument"
      THEN [rpc |-> "ModelMetadata", arg |-> name, status |-> "NOT_FOUND",
            metadata |-> NoMetadata]
      ELSE [rpc |-> "ModelMetadata", arg |-> name, status |-> "UNKNOWN",
            metadata |-> NoMetadata]

\* variant: the reply is filled from the second listed name on
HandleModelListSkipsFirst ==
  [rpc |-> "ModelList", arg |-> None, status |-> "OK",
   models |-> IF List = <<>> THEN <<>> ELSE Tail(List)]

\* CallDataModelList::handleRequest: add_models once per listed name
HandleModelList ==
  [rpc |-> "ModelList", arg |-> None, status |-> "OK", models |-> List]

----------------------------------------------------------------------------
(* Initial state: an empty registry, no worker, no request *)

NoReply == [rpc |-> None, arg |-> None, status |-> None]

\* no echo_multi run is under way
NoMulti ==
  [pc |-> "idle", inputs |-> <<>>, args |-> <<>>, input_index |-> 0,
   new_inputs |-> <<>>, i |-> 0, k |-> 0]

\* the locals of a thread that is inside neither load nor unload
NoCur ==
  [name |-> "", kind |-> "", params |-> NoParams, share |-> FALSE,
   raw |-> "", rpc |-> "", wid |-> 0]

\* MemoryPool's constructor: the Cpu allocator is registered, builds with
\* VART support register the VartTensor allocator as well
Allocators == {"Cpu", "VartTensor", "RocmDevice"}

\* units of memory each allocator can hand out before it is exhausted
PoolCapacity == [a \in Allocators |-> IF a = "Cpu" THEN 2
                                      ELSE IF a = "VartTensor" THEN 1 ELSE 0]

NoGet ==
  [candidates |-> <<>>, size |-> 0, ok |-> FALSE, allocator |-> None,
   error |-> None]

NewPool(registered) ==
  [registered |-> registered, free |-> PoolCapacity, loans |-> {},
   gets |-> 0, puts |-> 0, last |-> NoGet]

DefaultPool == NewPool({"Cpu"})

\* Batch's members as its constructor leaves them
EmptyBatch ==
  [requests |-> <<>>, traces |-> <<>>, start_times |-> <<>>,
   input_buffers |-> <<>>, output_buffers |-> <<>>]

\* a batch under construction in a build with the given AMDINFER_ENABLE_
\* TRACING and AMDINFER_ENABLE_METRICS settings
NewBat(tracing, metrics) ==
  [pc |-> "build", tracing |-> tracing, metrics |-> metrics,
   batch |-> EmptyBatch, new_batch |-> EmptyBatch, j |-> 0,
   held |-> {}, destroyed |-> {}, nbuf |-> 0, last |-> <<>>, gets |-> 0,
   sizes |-> 0, asserts |-> TRUE]

BufSize == 6

\* the bytes of a buffer nothing was written to
Fill == 170

NoWrite ==
  [op |-> None, type |-> None, at |-> 0, value |-> <<>>, ret |-> 0]

\* a buffer of BufSize bytes and the offset the next write starts at
NewBuffer ==
  [mem |-> [p \in 1..BufSize |-> Fill], offset |-> 0, last |-> NoWrite]

\* the model directories of the repository
Models == {"resnet", "bert"}

\* a file path as its stem and its extension
NoPath == [stem |-> "", extension |-> ""]

\* a ParameterMap nothing was put into
EmptyParameters ==
  [worker |-> None, model |-> NoPath, input_node |-> None,
   output_node |-> None]

\* a model directory's config.pbtxt: whether it can be opened and parsed,
\* whether it lies one directory lower (model/model/config.pbtxt), and its
\* platform, input and output fields
Config(file, nested, platform) ==
  [file |-> file, nested |-> nested, platform |-> platform,
   inputs |-> <<"images">>, outputs |-> <<"scores">>]

NoEvent ==
  [model |-> None, filename |-> None, action |-> None, error |-> None]

\* a repository with the given config files, watched by a listener that has
\* handled no event yet
NewRepo(fs) ==
  [fs |-> fs, loaded |-> [m \in Models |-> 0], calls |-> <<>>,
   parses |-> {}, handled |-> 0, last |-> NoEvent, alive |-> TRUE]

\* a completion queue whose handleRpcs thread has not started yet
NewGrpc ==
  [thread |-> "start", tag |-> 0, shutdown |-> FALSE, cds |-> <<>>,
   cq |-> <<>>, arrivals |-> 0]

\* no call of the ordered-inference helpers is under way
NoClient ==
  [fn |-> None, pc |-> "idle", n |-> 0, batch_size |-> 0, start_index |-> 0,
   i |-> 0, q |-> <<>>, completed |-> <<>>, sent |-> <<>>, responses |-> <<>>,
   peak |-> 0, waited |-> FALSE, early |-> FALSE, empty_front |-> FALSE]

\* VartTensorBuffer::data is not being called
NoVart ==
  [pc |-> "idle", dims |-> <<>>, offset |-> 0, arg |-> 0, k |-> 0,
   shape |-> <<>>]

\* the front-end components are idle
InitEdge ==
  /\ grpc = NewGrpc
  /\ cl = NoClient
  /\ http = <<>>
  /\ vt = NoVart

\* the components that are exercised on their own are idle
InitUnits ==
  /\ multi = NoMulti
  /\ pool = DefaultPool
  /\ bat = NewBat(FALSE, FALSE)
  /\ wr = NewBuffer
  /\ repo = NewRepo([m \in Models |-> Config("ok", FALSE, "onnx_onnxv1")])
  /\ InitEdge

InitPlane ==
  /\ endpoints = {}
  /\ mutex = None
  /\ pc = [t \in Threads |-> "idle"]
  /\ cur = [t \in Threads |-> NoCur]
  /\ workers = <<>>
  /\ ingress = <<>>
  /\ partial = <<>>
  /\ batchq = <<>>
  /\ bpc = <<>>
  /\ wpc = <<>>
  /\ wbatch = <<>>
  /\ wj = <<>>
  /\ requests = <<>>
  /\ responses = <<>>
  /\ cbLog = <<>>
  /\ reply = NoReply
  /\ hist = [n \in NamesUniverse |-> [loads |-> 0, unloads |-> 0]]
  /\ loadsLeft = MaxLoads
  /\ reqLeft = 0
  /\ calls = <<>>
  /\ drained = {}

Init == InitPlane /\ InitUnits

----------------------------------------------------------------------------
(* Endpoints::load, driven by CallDataWorkerLoad::handleRequest *)

NewWorker(kind, params, share) ==
  [kind |-> kind, params |-> params, share |-> share, batch_size |-> 0,
   state |-> "Uninitialized", metadata |-> NoMetadata, joined |-> FALSE]

\* variant: the handler answers with the name the client sent
FinishWorkerLoadEchoesRequest(raw, params, share, res) ==
  [rpc |-> "WorkerLoad", arg |-> ToLower(raw), params |-> params,
   share |-> share,
   status |-> IF res.error = None THEN "OK" ELSE "NOT_FOUND",
   endpoint |-> IF res.error = None THEN raw ELSE ""]

\* CallDataWorkerLoad::handleRequest, after workerLoad returned or raised:
\* set_endpoint and OK, NOT_FOUND for a runtime_error, UNKNOWN otherwise
FinishWorkerLoad(raw, params, share, res) ==
  [rpc |-> "WorkerLoad", arg |-> ToLower(raw), params |-> params,
   share |-> share,
   status |-> IF res.error = None THEN "OK"
              ELSE IF res.error = "runtime_error" THEN "NOT_FOUND"
              ELSE "UNKNOWN",
   endpoint |-> IF res.error = None THEN res.endpoint ELSE ""]

\* the load takes the registry mutex, then shares an entry, fails, or
\* instantiates the worker plug-in
WorkerLoad(t, raw, params, share) ==
  LET kind == ToLower(raw) IN
  /\ pc[t] = "idle"
  /\ LockFree
  /\ loadsLeft > 0
  /\ loadsLeft' = loadsLeft - 1
  /\ IF CanShare(kind, params, share)
     THEN LET e == Shared(kind, params) IN
          /\ endpoints' = (endpoints \ {e}) \cup
                            {[e EXCEPT !.refcount = @ + 1]}
          /\ hist' = [hist EXCEPT ![e.name].loads = @ + 1]
          /\ reply' = FinishWorkerLoad(raw, params, share,
                                        [error |-> None, endpoint |-> e.name])
          /\ UNCHANGED <<mutex, pc, cur, workers, ingress, partial, batchq,
                         runVars>>
     ELSE IF kind \notin KnownWorkers
     THEN /\ reply' = FinishWorkerLoad(raw, params, share,
                                        [error |-> "runtime_error",
                                         endpoint |-> ""])
          /\ UNCHANGED <<endpoints, hist, mutex, pc, cur, workers, ingress,
                         partial, batchq, runVars>>
     ELSE /\ mutex' = t
          /\ pc' = [pc EXCEPT ![t] = "load_init"]
          /\ cur' = [cur EXCEPT ![t] = [NoCur EXCEPT !.kind = kind,
                                                     !.params = params,
                                                     !.share = share,
                                                     !.raw = raw,
                                                     !.wid = Len(workers) + 1]]
          /\ workers' = Append(workers, NewWorker(kind, params, share))
          /\ ingress' = Append(ingress, <<>>)
          /\ partial' = Append(partial, <<>>)
          /\ batchq' = Append(batchq, <<>>)
          /\ bpc' = Append(bpc, "unspawned")
          /\ wpc' = Append(wpc, "unspawned")
          /\ wbatch' = Append(wbatch, <<>>)
          /\ wj' = Append(wj, 0)
          /\ UNCHANGED <<endpoints, hist, reply>>
  /\ UNCHANGED dataVars

\* Worker::init: Uninitialized -> Initialized, doInit declares the batch size
LoadInit(t) ==
  /\ pc[t] = "load_init"
  /\ workers' = [workers EXCEPT ![cur[t].wid] =
                   [@ EXCEPT !.state = "Initialized",
                             !.batch_size = DoInit(cur[t].kind,
                                                   cur[t].params)]]
  /\ pc' = [pc EXCEPT ![t] = "load_acquire"]
  /\ UNCHANGED <<endpoints, mutex, cur, reply, hist, loadsLeft, ingress,
                 partial, batchq, runVars, dataVars>>

\* Worker::acquire: Initialized -> Acquired, doAcquire fills the metadata
LoadAcquire(t) ==
  /\ pc[t] = "load_acquire"
  /\ workers' = [workers EXCEPT ![cur[t].wid] =
                   [@ EXCEPT !.state = "Acquired",
                             !.metadata = DoAcquire(cur[t].kind)]]
  /\ pc' = [pc EXCEPT ![t] = "load_spawn"]
  /\ UNCHANGED <<endpoints, mutex, cur, reply, hist, loadsLeft, ingress,
                 partial, batchq, runVars, dataVars>>

\* variant: the run thread is started but the worker is not marked Running
LoadSpawnKeepsAcquired(t) ==
  /\ pc[t] = "load_spawn"
  /\ wpc' = [wpc EXCEPT ![cur[t].wid] = "dequeue"]
  /\ bpc' = [bpc EXCEPT ![cur[t].wid] = "run"]
  /\ pc' = [pc EXCEPT ![t] = "load_insert"]
  /\ UNCHANGED <<endpoints, mutex, cur, reply, hist, loadsLeft, workers,
                 ingress, partial, batchq, wbatch, wj, dataVars>>

\* Echo::spawn / InvertVideo::spawn: start the run thread, Acquired -> Running
LoadSpawn(t) ==
  /\ pc[t] = "load_spawn"
  /\ workers' = [workers EXCEPT ![cur[t].wid] = [@ EXCEPT !.state = "Running"]]
  /\ wpc' = [wpc EXCEPT ![cur[t].wid] = "dequeue"]
  /\ bpc' = [bpc EXCEPT ![cur[t].wid] = "run"]
  /\ pc' = [pc EXCEPT ![t] = "load_insert"]
  /\ UNCHANGED <<endpoints, mutex, cur, reply, hist, loadsLeft, ingress,
                 partial, batchq, wbatch, wj, dataVars>>

NewEntry(name, c) ==
  [name |-> name, kind |-> c.kind, params |-> c.params, refcount |-> 1,
   wid |-> c.wid]

\* insert under a unique name with refcount 1, release the mutex, and the
\* handler finishes with the endpoint name
LoadInsert(t) ==
  LET name == UniqueName(cur[t].kind) IN
  /\ pc[t] = "load_insert"
  /\ endpoints' = endpoints \cup {NewEntry(name, cur[t])}
  /\ hist' = [hist EXCEPT ![name].loads = @ + 1]
  /\ reply' = FinishWorkerLoad(cur[t].raw, cur[t].params, cur[t].share,
                               [error |-> None, endpoint |-> name])
  /\ mutex' = None
  /\ pc' = [pc EXCEPT ![t] = "idle"]
  /\ cur' = [cur EXCEPT ![t] = NoCur]
  /\ UNCHANGED <<workers, loadsLeft, ingress, partial, batchq, runVars,
                 dataVars>>

----------------------------------------------------------------------------
(* Endpoints::unload, driven by CallDataWorkerUnload / CallDataModelUnload *)

UnloadRpcs == {"WorkerUnload", "ModelUnload"}

\* CallDataWorkerUnload / CallDataModelUnload::handleRequest: finish with OK
FinishUnload(rpc) == [rpc |-> rpc, arg |-> None, status |-> "OK"]

\* the unload takes the registry mutex and decrements the refcount; at zero
\* it enqueues the null request into the worker's ingress queue and goes on
\* to await the run thread, still holding the mutex
Unload(t, rpc, raw) ==
  LET name == ToLower(raw) IN
  /\ pc[t] = "idle"
  /\ LockFree
  /\ IF ~Exists(name)
     THEN /\ reply' = FinishUnload(rpc)
          /\ UNCHANGED <<endpoints, mutex, pc, cur, hist, ingress, drained>>
     ELSE LET e == Entry(name) IN
          /\ endpoints' = (endpoints \ {e}) \cup
                            {[e EXCEPT !.refcount = @ - 1]}
          /\ IF ~LastReference(e)
             THEN /\ hist' = [hist EXCEPT ![name].unloads = @ + 1]
                  /\ reply' = FinishUnload(rpc)
                  /\ UNCHANGED <<mutex, pc, cur, ingress, drained>>
             ELSE /\ ingress' = [ingress EXCEPT ![e.wid] =
                                   Append(@, NullRequest)]
                  /\ drained' = drained \cup
                       {ingress[e.wid][i].id : i \in DOMAIN ingress[e.wid]}
                  /\ mutex' = t
                  /\ pc' = [pc EXCEPT ![t] = "unload_join"]
                  /\ cur' = [cur EXCEPT ![t] = [NoCur EXCEPT !.name = name,
                                                             !.rpc = rpc,
                                                             !.raw = raw,
                                                             !.wid = e.wid]]
                  /\ UNCHANGED <<hist, reply>>
  /\ UNCHANGED <<workers, partial, batchq, runVars, loadsLeft, requests,
                 responses, cbLog, reqLeft, calls, unitVars>>

\* await thread join: the run thread has left its loop
UnloadJoin(t) ==
  /\ pc[t] = "unload_join"
  /\ wpc[cur[t].wid] \in {"done", "raised"}
  /\ workers' = [workers EXCEPT ![cur[t].wid] = [@ EXCEPT !.joined = TRUE]]
  /\ pc' = [pc EXCEPT ![t] = "unload_release"]
  /\ UNCHANGED <<endpoints, mutex, cur, reply, hist, loadsLeft, ingress,
                 partial, batchq, runVars, dataVars>>

\* Worker::release: Running -> Released
UnloadRelease(t) ==
  /\ pc[t] = "unload_release"
  /\ workers' = [workers EXCEPT ![cur[t].wid] =
                   [@ EXCEPT !.state = "Released"]]
  /\ pc' = [pc EXCEPT ![t] = "unload_destroy"]
  /\ UNCHANGED <<endpoints, mutex, cur, reply, hist, loadsLeft, ingress,
                 partial, batchq, runVars, dataVars>>

\* Worker::destroy: Released -> Destroyed; the entry leaves the registry, the
\* mutex is released and the handler finishes
UnloadDestroy(t) ==
  /\ pc[t] = "unload_destroy"
  /\ workers' = [workers EXCEPT ![cur[t].wid] =
                   [@ EXCEPT !.state = "Destroyed"]]
  /\ endpoints' = {e \in endpoints : e.name # cur[t].name}
  /\ hist' = [hist EXCEPT ![cur[t].name].unloads = @ + 1]
  /\ reply' = FinishUnload(cur[t].rpc)
  /\ mutex' = None
  /\ pc' = [pc EXCEPT ![t] = "idle"]
  /\ cur' = [cur EXCEPT ![t] = NoCur]
  /\ UNCHANGED <<loadsLeft, ingress, partial, batchq, runVars, dataVars>>

----------------------------------------------------------------------------
(* Read-only control calls: they take the registry lock shared *)

RpcModelReady(t, name) ==
  /\ pc[t] = "idle"
  /\ LockFree
  /\ reply' = HandleModelReady(name)
  /\ UNCHANGED <<endpoints, mutex, pc, cur, hist, loadsLeft, workers, ingress,
                 partial, batchq, runVars, dataVars>>

RpcModelMetadata(t, name) ==
  /\ pc[t] = "idle"
  /\ LockFree
  /\ reply' = HandleModelMetadata(name)
  /\ UNCHANGED <<endpoints, mutex, pc, cur, hist, loadsLeft, workers, ingress,
                 partial, batchq, runVars, dataVars>>

RpcModelList(t) ==
  /\ pc[t] = "idle"
  /\ LockFree
  /\ reply' = HandleModelList
  /\ UNCHANGED <<endpoints, mutex, pc, cur, hist, loadsLeft, workers, ingress,
                 partial, batchq, runVars, dataVars>>

----------------------------------------------------------------------------
(* Requests and the Echo worker's computation *)

\* a uint32_t as its two 16-bit halves
Half == 65536

U32(hi, lo) == [hi |-> hi, lo |-> lo]

\* value++ on a uint32_t: wraps around at 2^32
Increment(v) ==
  IF v.lo + 1 < Half THEN U32(v.hi, v.lo + 1)
  ELSE U32((v.hi + 1) % Half, 0)

\* input tensor lists the clients send: one tensor, two tensors whose
\* values wrap around, a tensor of another shape than the echo worker
\* declares, and no tensor at all
OneInput == <<[name |-> "in", shape |-> <<1>>, value |-> U32(0, 41)]>>
TwoInputs ==
  <<[name |-> "a", shape |-> <<1>>, value |-> U32(Half - 1, Half - 1)],
    [name |-> "b", shape |-> <<1>>, value |-> U32(0, Half - 1)]>>
BadShape == <<[name |-> "in", shape |-> <<2>>, value |-> U32(0, 7)]>>
NoInputs == <<>>


\* InferenceRequest::runCallbackError: an error-bearing response
ErrorResponse(req, msg) ==
  [id |-> req.id, model |-> "", outputs |-> <<>>, error |-> msg]

\* variant: the increment raises when the value wraps around
EchoThrowsOnWrap(value) == value.lo = Half - 1 /\ value.hi = Half - 1

\* the operation of Echo::doRun's try block, value++, raises nothing
EchoThrows(value) == FALSE

\* one output of Echo::doRun: value + 1 in uint32, named after the requested
\* output i if there is one and else after the first input
EchoOutput(req, i) ==
  LET output_name == IF i <= Len(req.outputs) THEN req.outputs[i] ELSE ""
  IN  [name  |-> IF output_name = "" THEN req.inputs[1].name ELSE output_name,
       dtype |-> "UINT32",
       shape |-> <<1>>,
       value |-> Increment(req.inputs[i].value)]

RECURSIVE EchoOutputs(_, _)
\* the outputs added to resp by the input loop from input i on
EchoOutputs(req, i) ==
  IF i > Len(req.inputs) THEN <<>>
  ELSE IF EchoThrows(req.inputs[i].value) THEN EchoOutputs(req, i + 1)
  ELSE <<EchoOutput(req, i)>> \o EchoOutputs(req, i + 1)

RECURSIVE EchoErrors(_, _)
\* the runCallbackError calls made by the input loop from input i on
EchoErrors(req, i) ==
  IF i > Len(req.inputs) THEN <<>>
  ELSE IF EchoThrows(req.inputs[i].value)
  THEN <<ErrorResponse(req, "Something went wrong")>> \o EchoErrors(req, i + 1)
  ELSE EchoErrors(req, i + 1)

\* the callback invocations Echo::doRun makes for one request, in order: the
\* error callbacks of the input loop, then runCallbackOnce(resp)
EchoCallbacks(req) ==
  EchoErrors(req, 1) \o
    <<[id |-> req.id, model |-> "echo", outputs |-> EchoOutputs(req, 1),
       error |-> None]>>

----------------------------------------------------------------------------
(* SharedState::modelInfer, driven by CallDataModelInfer::handleRequest *)

\* an error as the facade raises it: its kind in the error taxonomy and the
\* exception type that carries it
NoError == [kind |-> None, type |-> None]
NotFound == [kind |-> "NotFound", type |-> "invalid_argument"]
InvalidArgument == [kind |-> "InvalidArgument", type |-> "invalid_argument"]

\* SharedState::modelInfer, before it enqueues: NotFound for an unknown name,
\* InvalidArgument for a request without inputs
ModelInfer(name, inputs) ==
  IF ~Exists(name) THEN NotFound
  ELSE IF inputs = <<>> THEN InvalidArgument
  ELSE NoError

\* variant: the catch clauses are tried in the other order, so that
\* std::exception takes every error
FinishModelInferCatchAll(err) == "UNKNOWN"

\* the catch clauses of CallDataModelInfer::handleRequest: NOT_FOUND for an
\* invalid_argument, UNKNOWN for any other exception
FinishModelInfer(err) ==
  IF err.type = "invalid_argument" THEN "NOT_FOUND" ELSE "UNKNOWN"

\* variant: an error-bearing response is dropped instead of finishing the
\* call
SetCallbackDropsErrors(response) ==
  IF response.error # None THEN <<>> ELSE <<"OK">>

\* the callback setCallback installs: the statuses it finishes the call with
\* when invoked with response
SetCallback(response) ==
  IF response.error # None THEN <<"UNKNOWN">> ELSE <<"OK">>

RECURSIVE Finishes(_)
\* the statuses the call is finished with when its callback is invoked with
\* each of cbs in turn
Finishes(cbs) ==
  IF cbs = <<>> THEN <<>> ELSE SetCallback(Head(cbs)) \o Finishes(Tail(cbs))

\* the request's callback is invoked with each of cbs in turn
Invoke(id, cbs) ==
  /\ responses' = [responses EXCEPT ![id] = @ \o cbs]
  /\ cbLog' = cbLog \o [k \in 1..Len(cbs) |-> id]
  /\ calls' = [calls EXCEPT ![requests[id].call].finishes =
                                @ \o Finishes(cbs)]

\* the buffer pool->get hands to getInput: a loan held by the local BufferPtr
Loaned == [holder |-> "getInput", destroyed |-> FALSE, puts |-> 0]

\* the end of getInput's scope: the local BufferPtr is destroyed with the
\* buffer it holds, put is not called
ScopeExit(buffer) == [buffer EXCEPT !.holder = None, !.destroyed = TRUE]

\* getInput: the buffer that backs the tensor's data pointer, as it is when
\* the tensor is returned
GetInput(tensor) == ScopeExit(Loaned)

\* request parameters: key "none" stands for "parameter absent"
NoRequestParameters == [key |-> None]

\* the handler builds the request, sets its callback and hands the container
\* to the worker's ingress queue; an exception finishes the call at once
RpcModelInferWith(c, name, inputs, parameters) ==
  LET err == ModelInfer(name, inputs) IN
  /\ LockFree
  /\ reqLeft > 0
  /\ reqLeft' = reqLeft - 1
  /\ IF err # NoError
     THEN /\ reply' = [rpc |-> "ModelInfer", arg |-> name,
                       status |-> FinishModelInfer(err)]
          /\ calls' = Append(calls, [name |-> name, req |-> 0,
                                     kind |-> err.kind,
                                     finishes |-> <<FinishModelInfer(err)>>])
          /\ UNCHANGED <<requests, responses, ingress>>
     ELSE LET id == Len(requests) + 1
              req == [id |-> id, client |-> c, model |-> name,
                      wid |-> Entry(name).wid, inputs |-> inputs,
                      buffers |-> [i \in DOMAIN inputs |->
                                     GetInput(inputs[i])],
                      outputs |-> <<>>, parameters |-> parameters,
                      call |-> Len(calls) + 1]
          IN  /\ requests' = Append(requests, req)
              /\ responses' = Append(responses, <<>>)
              /\ ingress' = [ingress EXCEPT ![req.wid] =
                               Append(@, Container(id))]
              /\ calls' = Append(calls, [name |-> name, req |-> id,
                                         kind |-> None, finishes |-> <<>>])
              /\ UNCHANGED reply
  /\ UNCHANGED <<endpoints, mutex, pc, cur, hist, loadsLeft, workers, partial,
                 batchq, runVars, cbLog, drained, unitVars>>

\* a ModelInfer call that sets no request parameter
RpcModelInfer(c, name, inputs) ==
  RpcModelInferWith(c, name, inputs, NoRequestParameters)

----------------------------------------------------------------------------
(* HardBatcher: one thread per worker between ingress and batch queue *)

\* whether every input tensor of the request has the shape the worker's
\* metadata declares for its input
ShapesAgree(w, req) ==
  \A i \in DOMAIN req.inputs :
    req.inputs[i].shape = workers[w].metadata.inputs[1].shape

\* take one request; a request whose shape disagrees with the metadata is
\* failed through its callback and enters no batch; else the batch is emitted
\* as soon as it holds batch_size requests
BatcherTake(w) ==
  /\ bpc[w] = "run"
  /\ ingress[w] # <<>>
  /\ ~Head(ingress[w]).null
  /\ ingress' = [ingress EXCEPT ![w] = Tail(@)]
  /\ LET id == Head(ingress[w]).id
         batch == Append(partial[w], id)
     IN  IF ~ShapesAgree(w, requests[id])
         THEN /\ Invoke(id, <<ErrorResponse(requests[id],
                                            "InvalidArgument")>>)
              /\ UNCHANGED <<partial, batchq>>
         ELSE /\ IF Len(batch) >= workers[w].batch_size
                 THEN /\ batchq' = [batchq EXCEPT ![w] =
                                      Append(@, Batch(batch))]
                      /\ partial' = [partial EXCEPT ![w] = <<>>]
                 ELSE /\ partial' = [partial EXCEPT ![w] = batch]
                      /\ UNCHANGED batchq
              /\ UNCHANGED <<responses, cbLog, calls>>
  /\ UNCHANGED <<ctlVars, workers, runVars, requests, reqLeft, drained,
                 unitVars>>

\* the flush interval elapsed: emit the partial batch
BatcherTimeout(w) ==
  /\ bpc[w] = "run"
  /\ partial[w] # <<>>
  /\ batchq' = [batchq EXCEPT ![w] = Append(@, Batch(partial[w]))]
  /\ partial' = [partial EXCEPT ![w] = <<>>]
  /\ UNCHANGED <<ctlVars, workers, ingress, runVars, dataVars>>

\* variant: the null request makes the batcher drop its partial batch
BatcherStopDropsPartial(w) ==
  /\ bpc[w] = "run"
  /\ ingress[w] # <<>>
  /\ Head(ingress[w]).null
  /\ ingress' = [ingress EXCEPT ![w] = Tail(@)]
  /\ batchq' = [batchq EXCEPT ![w] = Append(@, NullBatch)]
  /\ partial' = [partial EXCEPT ![w] = <<>>]
  /\ bpc' = [bpc EXCEPT ![w] = "done"]
  /\ UNCHANGED <<ctlVars, workers, wpc, wbatch, wj, dataVars>>

\* the null request: emit the partial batch, then the null batch, and stop
BatcherStop(w) ==
  /\ bpc[w] = "run"
  /\ ingress[w] # <<>>
  /\ Head(ingress[w]).null
  /\ ingress' = [ingress EXCEPT ![w] = Tail(@)]
  /\ batchq' = [batchq EXCEPT ![w] =
                  IF partial[w] = <<>> THEN Append(@, NullBatch)
                  ELSE Append(Append(@, Batch(partial[w])), NullBatch)]
  /\ partial' = [partial EXCEPT ![w] = <<>>]
  /\ bpc' = [bpc EXCEPT ![w] = "done"]
  /\ UNCHANGED <<ctlVars, workers, wpc, wbatch, wj, dataVars>>

----------------------------------------------------------------------------
(* Echo::doRun: the run thread *)

\* variant: the null batch is not recognised
IsNullBatchNever(batch) == FALSE

\* batch == nullptr
IsNullBatch(batch) == batch.null

\* wait_dequeue; a null batch leaves the loop
RunDequeue(w) ==
  /\ wpc[w] = "dequeue"
  /\ batchq[w] # <<>>
  /\ batchq' = [batchq EXCEPT ![w] = Tail(@)]
  /\ IF IsNullBatch(Head(batchq[w]))
     THEN /\ wpc' = [wpc EXCEPT ![w] = "done"]
          /\ UNCHANGED <<wbatch, wj>>
     ELSE /\ wpc' = [wpc EXCEPT ![w] = "process"]
          /\ wbatch' = [wbatch EXCEPT ![w] = Head(batchq[w]).requests]
          /\ wj' = [wj EXCEPT ![w] = 0]
  /\ UNCHANGED <<ctlVars, workers, ingress, partial, bpc, dataVars>>

\* variant: the request loop reads request 0 in every iteration
GetRequestFirst(batch, j) == batch[1]

\* variant: the request loop walks the batch from its end
GetRequestReversed(batch, j) == batch[Len(batch) - j]

\* Batch::getRequest(j): requests_.at(j), positions counted from 0
GetRequest(batch, j) == batch[j + 1]

\* one iteration of the request loop: request j is answered
RunRequest(w) ==
  /\ workers[w].kind = "echo"
  /\ wpc[w] = "process"
  /\ wj[w] < Len(wbatch[w])
  /\ LET id == GetRequest(wbatch[w], wj[w])
         cbs == EchoCallbacks(requests[id])
     IN  Invoke(id, cbs)
  /\ wj' = [wj EXCEPT ![w] = @ + 1]
  /\ UNCHANGED <<ctlVars, workers, ingress, partial, batchq, bpc, wpc, wbatch,
                 requests, reqLeft, drained, unitVars>>

\* the request loop is over: returnInputBuffers, back to wait_dequeue
RunReturn(w) ==
  /\ wpc[w] = "process"
  /\ wj[w] >= Len(wbatch[w])
  /\ wpc' = [wpc EXCEPT ![w] = "dequeue"]
  /\ wbatch' = [wbatch EXCEPT ![w] = <<>>]
  /\ UNCHANGED <<ctlVars, workers, ingress, partial, batchq, bpc, wj,
                 dataVars>>

----------------------------------------------------------------------------
(* Specifications *)

Wids == 1..Len(workers)

\* names the clients put into unload and query calls: the endpoints that
\* exist, "echo" whether it exists or not, a name in another case and a name
\* that is never loaded
QueryNames == Names \cup {"echo", "Echo", "bogus"}

\* the control plane: loads, unloads and queries by concurrent threads
Next ==
  \/ \E t \in Threads, in \in LoadInputs : WorkerLoad(t, in[1], in[2], in[3])
  \/ \E t \in Threads : LoadInit(t)
  \/ \E t \in Threads : LoadAcquire(t)
  \/ \E t \in Threads : LoadSpawn(t)
  \/ \E t \in Threads : LoadInsert(t)
  \/ \E t \in Threads, rpc \in UnloadRpcs, raw \in QueryNames :
       Unload(t, rpc, raw)
  \/ \E t \in Threads : UnloadJoin(t)
  \/ \E t \in Threads : UnloadRelease(t)
  \/ \E t \in Threads : UnloadDestroy(t)
  \/ \E t \in Threads, name \in QueryNames : RpcModelReady(t, name)
  \/ \E t \in Threads, name \in QueryNames : RpcModelMetadata(t, name)
  \/ \E t \in Threads : RpcModelList(t)
  \/ \E w \in Wids : BatcherStop(w)
  \/ \E w \in Wids : RunDequeue(w)

Spec == Init /\ [][Next]_vars

----------------------------------------------------------------------------
(* The data plane of one echo endpoint: infer calls from two clients, its    *)
(* batcher and run thread, and the unload that stops it.                     *)

\* the state after workerLoad("echo", p) on an empty registry
InitRun ==
  /\ \E p \in ParamSets :
       /\ endpoints = {[name |-> "echo", kind |-> "echo", params |-> p,
                        refcount |-> 1, wid |-> 1]}
       /\ reply = FinishWorkerLoad("echo", p, TRUE,
                                   [error |-> None, endpoint |-> "echo"])
       /\ workers = <<[kind |-> "echo", params |-> p, share |-> TRUE,
                       batch_size |-> DoInit("echo", p),
                       state |-> "Running", metadata |-> DoAcquire("echo"),
                       joined |-> FALSE]>>
  /\ mutex = None
  /\ pc = [t \in Threads |-> "idle"]
  /\ cur = [t \in Threads |-> NoCur]
  /\ ingress = <<(<<>>)>>
  /\ partial = <<(<<>>)>>
  /\ batchq = <<(<<>>)>>
  /\ bpc = <<"run">>
  /\ wpc = <<"dequeue">>
  /\ wbatch = <<(<<>>)>>
  /\ wj = <<0>>
  /\ requests = <<>>
  /\ responses = <<>>
  /\ cbLog = <<>>
  /\ hist = [n \in NamesUniverse |->
               [loads |-> IF n = "echo" THEN 1 ELSE 0, unloads |-> 0]]
  /\ loadsLeft = 0
  /\ reqLeft = MaxReq
  /\ calls = <<>>
  /\ drained = {}
  /\ InitUnits

\* the modelInfer calls the clients issue: <<client, model name, inputs>>
InferInputs ==
  {<<"c1", "echo", OneInput>>, <<"c2", "echo", TwoInputs>>,
   <<"c1", "echo", BadShape>>, <<"c1", "echo", NoInputs>>,
   <<"c1", "bogus", OneInput>>}

NextRun ==
  \/ \E in \in InferInputs : RpcModelInfer(in[1], in[2], in[3])
  \/ \E w \in Wids : BatcherTake(w)
  \/ \E w \in Wids : BatcherTimeout(w)
  \/ \E w \in Wids : BatcherStop(w)
  \/ \E w \in Wids : RunDequeue(w)
  \/ \E w \in Wids : RunRequest(w)
  \/ \E w \in Wids : RunReturn(w)
  \/ Unload("t1", "WorkerUnload", "echo")
  \/ UnloadJoin("t1")
  \/ UnloadRelease("t1")
  \/ UnloadDestroy("t1")

SpecRun == InitRun /\ [][NextRun]_vars

----------------------------------------------------------------------------
(* The echo_multi model: run() over one request of a batch                   *)

kInputTensors == 2
kInputLengths == <<1, 2>>
kOutputTensors == 3
kOutputLengths == <<1, 4, 3>>

RECURSIVE ContainerSum(_)
\* util::containerSum: the sum of the container's elements
ContainerSum(c) == IF c = <<>> THEN 0 ELSE Head(c) + ContainerSum(Tail(c))

\* args.push_back(input_buffer[k]): the uint32_t is converted to int
ToInt(v) ==
  IF v.hi >= Half \div 2 THEN (v.hi - Half) * Half + v.lo
  ELSE v.hi * Half + v.lo

\* util::copy(args[input_index], data): the int's four bytes, read back as
\* the uint32_t the output tensor holds
CopyInt(n) == U32((n \div Half) % Half, n % Half)

\* uint32 values the clients put into the input tensors
MultiValues == {U32(0, 10), U32(0, 20), U32(0, 30), U32(Half - 1, Half - 1)}

\* the control plane and the data plane
planeVars ==
  <<ctlVars, workers, ingress, partial, batchq, runVars, requests, responses,
    cbLog, reqLeft, calls, drained>>

\* everything but the echo_multi run
coreVars == <<planeVars, pool, bat, wr, repo, edgeVars>>

\* run() is entered with a request of two input tensors of lengths 1 and 2
MultiStart(a, b, c) ==
  /\ multi.pc = "idle"
  /\ multi' = [multi EXCEPT !.pc = "gather", !.inputs = <<(<<a>>), <<b, c>>>>,
                            !.args = <<>>, !.i = 0, !.k = 0]
  /\ UNCHANGED coreVars

\* one iteration of the loop that copies the input tensors into args
MultiGather ==
  /\ multi.pc = "gather"
  /\ LET i == multi.i
         k == multi.k
         len == kInputLengths[i + 1]
         args == Append(multi.args, ToInt(multi.inputs[i + 1][k + 1]))
         last == k + 1 >= len
         over == last /\ i + 1 >= kInputTensors
     IN  multi' =
           [multi EXCEPT
              !.args = args,
              !.k = IF last THEN 0 ELSE k + 1,
              !.i = IF over THEN 0 ELSE IF last THEN i + 1 ELSE i,
              !.pc = IF over THEN "fill" ELSE "gather",
              !.input_index = 0,
              !.new_inputs = [t \in 1..kOutputTensors |-> <<>>]]
  /\ UNCHANGED coreVars

\* variant: the replay index wraps at the number of input tensors
NextInputIndexModTensors(input_index, input_num) ==
  (input_index + 1) % kInputTensors

\* input_index = (input_index + 1) % input_num
NextInputIndex(input_index, input_num) == (input_index + 1) % input_num

\* one iteration of the loop that fills the output tensors from args
MultiFill ==
  /\ multi.pc = "fill"
  /\ LET i == multi.i
         k == multi.k
         len == kOutputLengths[i + 1]
         input_num == ContainerSum(kInputLengths)
         last == k + 1 >= len
         over == last /\ i + 1 >= kOutputTensors
     IN  multi' =
           [multi EXCEPT
              !.new_inputs[i + 1] =
                 Append(@, CopyInt(multi.args[multi.input_index + 1])),
              !.input_index = NextInputIndex(multi.input_index, input_num),
              !.k = IF last THEN 0 ELSE k + 1,
              !.i = IF over THEN 0 ELSE IF last THEN i + 1 ELSE i,
              !.pc = IF over THEN "done" ELSE "fill"]
  /\ UNCHANGED coreVars

NextMulti ==
  \/ \E a, b, c \in MultiValues : MultiStart(a, b, c)
  \/ MultiGather
  \/ MultiFill

SpecMulti == Init /\ [][NextMulti]_vars

----------------------------------------------------------------------------
(* The batcher of one echo endpoint under fair scheduling: its thread and    *)
(* the run thread go on, and the flush interval elapses.                     *)

\* the modelInfer calls of one client
BatchInputs == {<<"c1", "echo", OneInput>>, <<"c1", "echo", BadShape>>}

NextBatch ==
  \/ \E in \in BatchInputs : RpcModelInfer(in[1], in[2], in[3])
  \/ \E w \in Wids : BatcherTake(w)
  \/ \E w \in Wids : BatcherTimeout(w)
  \/ \E w \in Wids : BatcherStop(w)
  \/ \E w \in Wids : RunDequeue(w)
  \/ \E w \in Wids : RunRequest(w)
  \/ \E w \in Wids : RunReturn(w)
  \/ Unload("t1", "WorkerUnload", "echo")
  \/ UnloadJoin("t1")
  \/ UnloadRelease("t1")
  \/ UnloadDestroy("t1")

SpecBatch ==
  /\ InitRun
  /\ [][NextBatch]_vars
  /\ WF_vars(\E w \in Wids : BatcherTake(w))
  /\ WF_vars(\E w \in Wids : BatcherTimeout(w))
  /\ WF_vars(\E w \in Wids : BatcherStop(w))

----------------------------------------------------------------------------
(* InvertVideo::doRun: the run thread of an invertvideo endpoint, which     *)
(* streams one response with the frame rate and one per inverted frame.     *)

\* an input tensor that names a video: whether cv::VideoCapture opens it,
\* the frames it holds, and the tensor's count parameter (0: absent)
Video(opens, frames, count) ==
  [name |-> "input", shape |-> <<128>>, opens |-> opens, frames |-> frames,
   count |-> count]

OneVideo == <<Video(TRUE, 2, 0)>>
CountedVideo == <<Video(TRUE, 2, 1)>>
ShortVideo == <<Video(TRUE, 1, 2)>>
TwoBadVideos == <<Video(FALSE, 0, 0), Video(FALSE, 0, 0)>>
BadThenGood == <<Video(FALSE, 0, 0), Video(TRUE, 1, 0)>>

WithKey == [key |-> "k1"]

\* ParameterMap::get<std::string>("key") raises when the key is absent
GetKeyThrows(req) == req.parameters.key = None

\* count: CAP_PROP_FRAME_COUNT, or the tensor's count parameter if it has one
FrameCount(in) == IF in.count # 0 THEN in.count ELSE in.frames

\* the loop over num_frames never ends: once the video is exhausted every
\* frame is empty, and an empty frame takes num_frames back
Spins(in) == in.opens /\ FrameCount(in) > in.frames

\* a response of InvertVideo::doRun
VideoResponse(req, output) ==
  [id |-> req.id, model |-> "invert_video",
   outputs |-> <<[name |-> output, dtype |-> "STRING", key |-> req.parameters.key]>>,
   error |-> None]

\* the callbacks made for one input tensor: runCallbackError if the video
\* cannot be opened, else the frame rate and then one response per frame
\* read
VideoInputCallbacks(req, in) ==
  IF ~in.opens THEN <<ErrorResponse(req, "Cannot open video file")>>
  ELSE <<VideoResponse(req, "key")>> \o
       [k \in 1..(IF Spins(in) THEN in.frames ELSE FrameCount(in)) |->
          VideoResponse(req, "image")]

RECURSIVE VideoCallbacks(_, _)
\* the callbacks the loop over the inputs makes from input i on; an input
\* whose frame loop never ends is the last one reached
VideoCallbacks(req, i) ==
  IF i > Len(req.inputs) THEN <<>>
  ELSE VideoInputCallbacks(req, req.inputs[i]) \o
       (IF Spins(req.inputs[i]) THEN <<>> ELSE VideoCallbacks(req, i + 1))

\* one iteration of InvertVideo::doRun's request loop: the exception of a
\* missing key leaves doRun, a frame loop that never ends keeps the thread
\* inside the iteration, else the request's inputs are answered in turn
VideoRequest(w) ==
  /\ workers[w].kind = "invertvideo"
  /\ wpc[w] = "process"
  /\ wj[w] < Len(wbatch[w])
  /\ LET id == GetRequest(wbatch[w], wj[w])
         req == requests[id]
     IN  IF GetKeyThrows(req)
         THEN /\ wpc' = [wpc EXCEPT ![w] = "raised"]
              /\ UNCHANGED <<wj, responses, cbLog, calls>>
         ELSE /\ Invoke(id, VideoCallbacks(req, 1))
              /\ IF \E i \in DOMAIN req.inputs : Spins(req.inputs[i])
                 THEN /\ wpc' = [wpc EXCEPT ![w] = "spinning"]
                      /\ UNCHANGED wj
                 ELSE /\ wj' = [wj EXCEPT ![w] = @ + 1]
                      /\ UNCHANGED wpc
  /\ UNCHANGED <<ctlVars, workers, ingress, partial, batchq, bpc, wbatch,
                 requests, reqLeft, drained, unitVars>>

\* the state after workerLoad("invertvideo") on an empty registry
InitVideo ==
  /\ endpoints = {[name |-> "invertvideo", kind |-> "invertvideo",
                   params |-> NoParams, refcount |-> 1, wid |-> 1]}
  /\ reply = FinishWorkerLoad("invertvideo", NoParams, TRUE,
                              [error |-> None, endpoint |-> "invertvideo"])
  /\ workers = <<[kind |-> "invertvideo", params |-> NoParams, share |-> TRUE,
                  batch_size |-> DoInit("invertvideo", NoParams),
                  state |-> "Running", metadata |-> DoAcquire("invertvideo"),
                  joined |-> FALSE]>>
  /\ mutex = None
  /\ pc = [t \in Threads |-> "idle"]
  /\ cur = [t \in Threads |-> NoCur]
  /\ ingress = <<(<<>>)>>
  /\ partial = <<(<<>>)>>
  /\ batchq = <<(<<>>)>>
  /\ bpc = <<"run">>
  /\ wpc = <<"dequeue">>
  /\ wbatch = <<(<<>>)>>
  /\ wj = <<0>>
  /\ requests = <<>>
  /\ responses = <<>>
  /\ cbLog = <<>>
  /\ hist = [n \in NamesUniverse |->
               [loads |-> IF n = "invertvideo" THEN 1 ELSE 0, unloads |-> 0]]
  /\ loadsLeft = 0
  /\ reqLeft = MaxReq
  /\ calls = <<>>
  /\ drained = {}
  /\ InitUnits

\* the modelInfer calls the clients issue: <<inputs, request parameters>>
VideoInputs ==
  {<<OneVideo, WithKey>>, <<CountedVideo, WithKey>>, <<ShortVideo, WithKey>>,
   <<TwoBadVideos, WithKey>>, <<BadThenGood, WithKey>>,
   <<OneVideo, NoRequestParameters>>}

NextVideo ==
  \/ \E in \in VideoInputs :
       RpcModelInferWith("c1", "invertvideo", in[1], in[2])
  \/ \E w \in Wids : BatcherTake(w)
  \/ \E w \in Wids : BatcherStop(w)
  \/ \E w \in Wids : RunDequeue(w)
  \/ \E w \in Wids : VideoRequest(w)
  \/ \E w \in Wids : RunReturn(w)
  \/ Unload("t1", "WorkerUnload", "invertvideo")
  \/ UnloadJoin("t1")
  \/ UnloadRelease("t1")
  \/ UnloadDestroy("t1")

SpecVideo == InitVideo /\ [][NextVideo]_vars

----------------------------------------------------------------------------
(* MemoryPool: get picks an allocator from the caller's candidate list, put  *)
(* takes a buffer back.                                                      *)

MaxGets == 4

\* candidate lists and sizes the callers pass to get
CandidateLists ==
  {<<"Cpu">>, <<"VartTensor", "Cpu">>, <<"Cpu", "VartTensor">>,
   <<"RocmDevice">>, <<"RocmDevice", "VartTensor">>}
GetSizes == {1, 2}

\* whether the allocator is registered and has size units left
CanAllocate(kind, size) == kind \in pool.registered /\ pool.free[kind] >= size

RECURSIVE PoolPickLast(_, _)
\* variant: the candidates are tried from the end of the list
PoolPickLast(candidates, size) ==
  IF candidates = <<>> THEN None
  ELSE IF CanAllocate(candidates[Len(candidates)], size)
  THEN candidates[Len(candidates)]
  ELSE PoolPickLast(SubSeq(candidates, 1, Len(candidates) - 1), size)

RECURSIVE PoolPick(_, _)
\* the allocator get chooses: the first candidate, in list order, that is
\* registered and can satisfy the size
PoolPick(candidates, size) ==
  IF candidates = <<>> THEN None
  ELSE IF CanAllocate(Head(candidates), size) THEN Head(candidates)
  ELSE PoolPick(Tail(candidates), size)

\* the error of a get that found no allocator
GetError(candidates) ==
  IF \A i \in DOMAIN candidates : candidates[i] \notin pool.registered
  THEN "AllocatorUnavailable" ELSE "OutOfMemory"

\* MemoryPool::get(candidates, input, batch_size)
PoolGet(candidates, size) ==
  LET kind == PoolPick(candidates, size) IN
  /\ pool.gets < MaxGets
  /\ IF kind = None
     THEN pool' = [pool EXCEPT
                     !.gets = @ + 1,
                     !.last = [candidates |-> candidates, size |-> size,
                               ok |-> FALSE, allocator |-> None,
                               error |-> GetError(candidates)]]
     ELSE pool' = [pool EXCEPT
                     !.gets = @ + 1,
                     !.free[kind] = @ - size,
                     !.loans = @ \cup {[id |-> pool.gets + 1,
                                        allocator |-> kind, size |-> size]},
                     !.last = [candidates |-> candidates, size |-> size,
                               ok |-> TRUE, allocator |-> kind,
                               error |-> None]]
  /\ UNCHANGED <<planeVars, edgeVars, multi, bat, wr, repo>>

\* MemoryPool::put(buffer): the buffer goes back to its allocator
PoolPut(b) ==
  /\ b \in pool.loans
  /\ pool' = [pool EXCEPT !.puts = @ + 1,
                          !.free[b.allocator] = @ + b.size,
                          !.loans = @ \ {b}]
  /\ UNCHANGED <<planeVars, edgeVars, multi, bat, wr, repo>>

NextPool ==
  \/ \E c \in CandidateLists, n \in GetSizes : PoolGet(c, n)
  \/ \E b \in pool.loans : PoolPut(b)

\* a pool as its constructor leaves it, in a build without or with VART
InitPool ==
  /\ InitPlane
  /\ multi = NoMulti
  /\ pool \in {DefaultPool, NewPool({"Cpu", "VartTensor"})}
  /\ bat = NewBat(FALSE, FALSE)
  /\ wr = NewBuffer
  /\ repo = NewRepo([m \in Models |-> Config("ok", FALSE, "onnx_onnxv1")])
  /\ InitEdge

SpecPool == InitPool /\ [][NextPool]_vars

----------------------------------------------------------------------------
(* Batch: the batcher fills it and hands it on, the echo model's run fills  *)
(* new_batch from it, and the worker takes the buffers out of it.           *)

MaxBatch == 2
MaxBuffers == 4
MaxBufferGets == 3

\* variant: the time of the request is not carried over
AddTimeSkipped(times, t) == times

\* Batch::addTime: start_times_.push_back
AddTime(times, t) == Append(times, t)

\* Batch::addTrace: traces_.push_back
AddTrace(traces, t) == Append(traces, t)

\* the assertions of Batch::size, as the build has them
SizeAsserts(b) ==
  /\ bat.tracing => Len(b.requests) = Len(b.traces)
  /\ bat.metrics => Len(b.requests) = Len(b.start_times)

\* variant: the vector is copied and keeps its elements
MovedFromKeeps(v) == v

\* a std::vector after it was moved into the returned value: empty
MovedFrom(v) == <<>>

\* the batcher adds a request, with its trace and its start time
BatAddRequest ==
  /\ bat.pc = "build"
  /\ Len(bat.batch.requests) < MaxBatch
  /\ LET id == Len(bat.batch.requests) + 1 IN
     bat' = [bat EXCEPT
               !.batch.requests = Append(@, id),
               !.batch.traces = IF bat.tracing THEN AddTrace(@, id) ELSE @,
               !.batch.start_times =
                  IF bat.metrics THEN AddTime(@, id) ELSE @]
  /\ UNCHANGED <<planeVars, edgeVars, multi, pool, wr, repo>>

\* Batch::setBuffers: both sets are move-assigned, the buffers the batch held
\* before are destroyed
BatSetBuffers(ni, no) ==
  /\ bat.pc = "build"
  /\ bat.nbuf + ni + no <= MaxBuffers
  /\ bat' = [bat EXCEPT
               !.batch.input_buffers = [k \in 1..ni |-> bat.nbuf + k],
               !.batch.output_buffers = [k \in 1..no |-> bat.nbuf + ni + k],
               !.destroyed = @ \cup Range(bat.batch.input_buffers)
                               \cup Range(bat.batch.output_buffers),
               !.nbuf = @ + ni + no]
  /\ UNCHANGED <<planeVars, edgeVars, multi, pool, wr, repo>>

\* the batcher hands the batch on; new_batch holds one request per request
\* of the batch
BatHandOn ==
  /\ bat.pc = "build"
  /\ bat.batch.requests # <<>>
  /\ bat' = [bat EXCEPT !.pc = "ready",
                        !.new_batch.requests = bat.batch.requests]
  /\ UNCHANGED <<planeVars, edgeVars, multi, pool, wr, repo>>

\* run is entered: batch_size = batch->size()
BatRunStart ==
  /\ bat.pc = "ready"
  /\ bat' = [bat EXCEPT !.pc = "run", !.j = 0,
                        !.asserts = @ /\ SizeAsserts(bat.batch)]
  /\ UNCHANGED <<planeVars, edgeVars, multi, pool, wr, repo>>

\* one iteration of run's loop over the requests: the trace of request j is
\* moved into new_batch, which leaves a null TracePtr behind, and its start
\* time is copied
BatRunStep ==
  /\ bat.pc = "run"
  /\ bat.j < Len(bat.batch.requests)
  /\ LET j == bat.j + 1 IN
     bat' = [bat EXCEPT
               !.new_batch.traces =
                  IF bat.tracing THEN AddTrace(@, bat.batch.traces[j]) ELSE @,
               !.batch.traces = IF bat.tracing THEN [@ EXCEPT ![j] = 0] ELSE @,
               !.new_batch.start_times =
                  IF bat.metrics THEN AddTime(@, bat.batch.start_times[j])
                  ELSE @,
               !.j = @ + 1]
  /\ UNCHANGED <<planeVars, edgeVars, multi, pool, wr, repo>>

\* run returns: new_batch is handed on
BatRunEnd ==
  /\ bat.pc = "run"
  /\ bat.j >= Len(bat.batch.requests)
  /\ bat' = [bat EXCEPT !.pc = "done"]
  /\ UNCHANGED <<planeVars, edgeVars, multi, pool, wr, repo>>

\* Batch::size is called on one of the batches that were handed on
BatSize(which) ==
  /\ bat.pc = "done"
  /\ bat.sizes < 2
  /\ bat' = [bat EXCEPT !.sizes = @ + 1,
                        !.asserts = @ /\ SizeAsserts(bat[which])]
  /\ UNCHANGED <<planeVars, edgeVars, multi, pool, wr, repo>>

\* Batch::getInputBuffers: the caller gets the set, the batch keeps what the
\* move leaves
BatGetInputBuffers ==
  /\ bat.pc = "done"
  /\ bat.gets < MaxBufferGets
  /\ bat' = [bat EXCEPT
               !.gets = @ + 1,
               !.last = bat.batch.input_buffers,
               !.held = @ \cup Range(bat.batch.input_buffers),
               !.batch.input_buffers = MovedFrom(@)]
  /\ UNCHANGED <<planeVars, edgeVars, multi, pool, wr, repo>>

\* Batch::getOutputBuffers
BatGetOutputBuffers ==
  /\ bat.pc = "done"
  /\ bat.gets < MaxBufferGets
  /\ bat' = [bat EXCEPT
               !.gets = @ + 1,
               !.last = bat.batch.output_buffers,
               !.held = @ \cup Range(bat.batch.output_buffers),
               !.batch.output_buffers = MovedFrom(@)]
  /\ UNCHANGED <<planeVars, edgeVars, multi, pool, wr, repo>>

NextBat ==
  \/ BatAddRequest
  \/ \E ni, no \in 0..2 : BatSetBuffers(ni, no)
  \/ BatHandOn
  \/ BatRunStart
  \/ BatRunStep
  \/ BatRunEnd
  \/ \E which \in {"batch", "new_batch"} : BatSize(which)
  \/ BatGetInputBuffers
  \/ BatGetOutputBuffers

\* an empty batch, in each of the four builds
InitBat ==
  /\ InitPlane
  /\ multi = NoMulti
  /\ pool = DefaultPool
  /\ \E tracing, metrics \in BOOLEAN : bat = NewBat(tracing, metrics)
  /\ wr = NewBuffer
  /\ repo = NewRepo([m \in Models |-> Config("ok", FALSE, "onnx_onnxv1")])
  /\ InitEdge

SpecBat == InitBat /\ [][NextBat]_vars

----------------------------------------------------------------------------
(* Buffer::write into a contiguous buffer, and WriteData's loop over it.    *)
(* Byte p of the buffer, counted from 0, is mem[p + 1].                     *)

\* strings, as the codes of their characters
Strings == {<<>>, <<104>>, <<104, 105>>, <<111, 107, 33>>}

\* element types WriteData writes one by one, and tensor contents
WriteTypes == {"uint8", "uint16"}
Contents == {<<7>>, <<258, 3>>, <<1, 2, 515>>}

\* sizeof(T)
SizeOf(type) == IF type = "uint8" THEN 1 ELSE 2

\* static_cast<T>(contents[i]) as the bytes memcpy copies, low byte first
BytesOf(type, v) ==
  IF type = "uint8" THEN <<v % 256>>
  ELSE <<v % 256, (v \div 256) % 256>>

\* memcpy of bytes to byte offset of the buffer
Copy(mem, bytes, offset) ==
  [p \in 1..BufSize |->
     IF p > offset /\ p <= offset + Len(bytes) THEN bytes[p - offset]
     ELSE mem[p]]

\* variant: write returns the number of bytes it wrote
BufferWriteReturnsSize(mem, bytes, offset) ==
  [mem |-> Copy(mem, bytes, offset), ret |-> Len(bytes)]

\* Buffer::write(data, offset, size): copies size bytes to the offset and
\* returns the offset after them
BufferWrite(mem, bytes, offset) ==
  [mem |-> Copy(mem, bytes, offset), ret |-> offset + Len(bytes)]

\* Buffer::write<std::string>(value, offset): the characters go to
\* data(offset), a null byte after them
WriteString(mem, value, offset) ==
  [mem |-> Copy(Copy(mem, value, offset), <<0>>, offset + Len(value)),
   ret |-> offset + Len(value) + 1]

\* Buffer::write<T>(value, offset) for a fixed-size T
WriteValue(mem, type, v, offset) == BufferWrite(mem, BytesOf(type, v), offset)

RECURSIVE WriteLoop(_, _, _, _, _)
\* WriteData's loop from element i on: offset = buffer->write(contents[i],
\* offset)
WriteLoop(mem, type, contents, i, offset) ==
  IF i > Len(contents) THEN [mem |-> mem, ret |-> offset]
  ELSE LET w == WriteValue(mem, type, contents[i], offset)
       IN  WriteLoop(w.mem, type, contents, i + 1, w.ret)

\* a string is written at the current offset
WrString(value) ==
  /\ wr.offset + Len(value) + 1 <= BufSize
  /\ LET w == WriteString(wr.mem, value, wr.offset) IN
     wr' = [mem |-> w.mem, offset |-> w.ret,
            last |-> [op |-> "string", type |-> "string", at |-> wr.offset,
                      value |-> value, ret |-> w.ret]]
  /\ UNCHANGED <<planeVars, edgeVars, multi, pool, bat, repo>>

\* one fixed-size value is written at the current offset
WrValue(type, v) ==
  /\ wr.offset + SizeOf(type) <= BufSize
  /\ LET w == WriteValue(wr.mem, type, v, wr.offset) IN
     wr' = [mem |-> w.mem, offset |-> w.ret,
            last |-> [op |-> "value", type |-> type, at |-> wr.offset,
                      value |-> <<v>>, ret |-> w.ret]]
  /\ UNCHANGED <<planeVars, edgeVars, multi, pool, bat, repo>>

\* WriteData writes the contents of a tensor from the current offset on
WrData(type, contents) ==
  /\ wr.offset + Len(contents) * SizeOf(type) <= BufSize
  /\ LET w == WriteLoop(wr.mem, type, contents, 1, wr.offset) IN
     wr' = [mem |-> w.mem, offset |-> w.ret,
            last |-> [op |-> "data", type |-> type, at |-> wr.offset,
                      value |-> contents, ret |-> w.ret]]
  /\ UNCHANGED <<planeVars, edgeVars, multi, pool, bat, repo>>

NextWrite ==
  \/ \E value \in Strings : WrString(value)
  \/ \E type \in WriteTypes, v \in {7, 258} : WrValue(type, v)
  \/ \E type \in WriteTypes, contents \in Contents : WrData(type, contents)

SpecWrite == Init /\ [][NextWrite]_vars

----------------------------------------------------------------------------
(* The model repository: parseModel and the listener of the file watcher    *)

MaxEvents == 3

\* the config files a model directory may hold
Configs ==
  {Config("ok", FALSE, "tensorflow_graphdef"),
   Config("ok", FALSE, "pytorch_torchscript"),
   Config("ok", FALSE, "onnx_onnxv1"),
   Config("ok", TRUE, "migraphx_mxr"),
   Config("ok", FALSE, "vitis_xmodel"),
   Config("ok", FALSE, "tensorrt_plan"),
   Config("missing", FALSE, ""),
   Config("garbled", FALSE, "onnx_onnxv1")}

\* model_base: model_path / "1/saved_model", model_path one directory lower
\* when the config file lies there
ModelBase(model, cfg) ==
  "repository/" \o model \o (IF cfg.nested THEN "/" \o model ELSE "")
    \o "/1/saved_model"

\* model_base + suffix
WithSuffix(base, suffix) == [stem |-> base, extension |-> suffix]

\* variant: the torchscript branch names the .pb file
PlatformBranchPb(platform, base) ==
  IF platform = "tensorflow_graphdef"
  THEN [worker |-> "tfzendnn", model |-> WithSuffix(base, ".pb")]
  ELSE IF platform = "pytorch_torchscript"
  THEN [worker |-> "ptzendnn", model |-> WithSuffix(base, ".pb")]
  ELSE IF platform = "onnx_onnxv1"
  THEN [worker |-> "migraphx", model |-> WithSuffix(base, ".onnx")]
  ELSE IF platform = "migraphx_mxr"
  THEN [worker |-> "migraphx", model |-> WithSuffix(base, ".mxr")]
  ELSE IF platform = "vitis_xmodel"
  THEN [worker |-> "xmodel", model |-> WithSuffix(base, ".xmodel")]
  ELSE [worker |-> None, model |-> NoPath]

\* the if / else if chain over config.platform(): the worker and model
\* parameters its branch puts, none in the final else
PlatformBranch(platform, base) ==
  IF platform = "tensorflow_graphdef"
  THEN [worker |-> "tfzendnn", model |-> WithSuffix(base, ".pb")]
  ELSE IF platform = "pytorch_torchscript"
  THEN [worker |-> "ptzendnn", model |-> WithSuffix(base, ".pt")]
  ELSE IF platform = "onnx_onnxv1"
  THEN [worker |-> "migraphx", model |-> WithSuffix(base, ".onnx")]
  ELSE IF platform = "migraphx_mxr"
  THEN [worker |-> "migraphx", model |-> WithSuffix(base, ".mxr")]
  ELSE IF platform = "vitis_xmodel"
  THEN [worker |-> "xmodel", model |-> WithSuffix(base, ".xmodel")]
  ELSE [worker |-> None, model |-> NoPath]

\* parseModel: the error it raises, if any, and the parameters it has put
ParseModel(model, cfg) ==
  LET branch == PlatformBranch(cfg.platform, ModelBase(model, cfg)) IN
  IF cfg.file = "missing"
  THEN [error |-> "file_not_found_error", params |-> EmptyParameters]
  ELSE IF cfg.file = "garbled"
  THEN [error |-> "file_read_error", params |-> EmptyParameters]
  ELSE IF branch.worker = None
  THEN [error |-> "invalid_argument", params |-> EmptyParameters]
  ELSE [error |-> None,
        params |->
          [worker |-> branch.worker, model |-> branch.model,
           input_node |-> IF cfg.platform = "tensorflow_graphdef"
                          THEN cfg.inputs[Len(cfg.inputs)] ELSE None,
           output_node |-> IF cfg.platform = "tensorflow_graphdef"
                           THEN cfg.outputs[Len(cfg.outputs)] ELSE None]]

\* the events the file watcher reports
FileNames == {"config.pbtxt", "saved_model.onnx"}
FileActions == {"Add", "Delete", "Modified", "Moved"}

\* variant: every file name is taken for a config file
IsConfigAnyFile(filename) == TRUE

\* filename == "config.pbtxt"
IsConfig(filename) == filename = "config.pbtxt"

\* the errors catch (const runtime_error&) takes
CaughtErrors ==
  {"runtime_error", "file_not_found_error", "file_read_error",
   "invalid_argument"}

\* UpdateListener::handleFileAction for one event; loads tells whether
\* Endpoints::load returns or raises a runtime_error
HandleFileAction(model, filename, action, loads) ==
  LET parsed == ParseModel(model, repo.fs[model])
      error == IF parsed.error # None THEN parsed.error
               ELSE IF loads THEN None ELSE "runtime_error"
      seen == [repo EXCEPT !.handled = @ + 1,
                           !.last = [model |-> model, filename |-> filename,
                                     action |-> action, error |-> None]]
  IN
  /\ repo.alive
  /\ repo.handled < MaxEvents
  /\ IF IsConfig(filename) /\ action = "Add"
     THEN repo' =
            [seen EXCEPT
               !.parses = @ \cup {[platform |-> repo.fs[model].platform,
                                   error |-> parsed.error,
                                   params |-> parsed.params]},
               !.calls = IF parsed.error = None
                         THEN Append(@, [op |-> "load", model |-> model,
                                         params |-> parsed.params])
                         ELSE @,
               !.loaded[model] = IF error = None THEN @ + 1 ELSE @,
               !.last.error = error,
               !.alive = error = None \/ error \in CaughtErrors]
     ELSE IF IsConfig(filename) /\ action = "Delete"
     THEN repo' =
            [seen EXCEPT
               !.calls = Append(@, [op |-> "unload", model |-> model,
                                    params |-> EmptyParameters]),
               !.loaded[model] = IF @ > 0 THEN @ - 1 ELSE @]
     ELSE repo' = seen
  /\ UNCHANGED <<planeVars, edgeVars, multi, pool, bat, wr>>

NextRepo ==
  \E model \in Models, filename \in FileNames, action \in FileActions,
     loads \in BOOLEAN :
    HandleFileAction(model, filename, action, loads)

\* a repository whose model directories hold any of the config files
InitRepo ==
  /\ InitPlane
  /\ multi = NoMulti
  /\ pool = DefaultPool
  /\ bat = NewBat(FALSE, FALSE)
  /\ wr = NewBuffer
  /\ \E fs \in [Models -> Configs] : repo = NewRepo(fs)
  /\ InitEdge

SpecRepo == InitRepo /\ [][NextRepo]_vars

----------------------------------------------------------------------------
(* The gRPC server: CallData::proceed, the handlers' finish and the         *)
(* handleRpcs thread of one completion queue.                               *)

MaxRpcs == 3

\* two of the RPC types handleRpcs creates a CallData for: one whose handler
\* calls finish inside handleRequest and the one a worker's callback
\* finishes
RpcTypes == <<"ServerLive", "ModelInfer">>

\* what building and submitting the request of a ModelInfer call comes to
InferOutcomes == {NoError, NotFound}

\* the responses a worker invokes the request's callback with
CallbackResponses == {[error |-> None], [error |-> "failed"]}

\* CallData's constructor: status_(Create). The other fields are the
\* request the runtime fills in and a record of what happened to the
\* instance
NewCallData(type) ==
  [type |-> type, status |-> "Create", registered |-> FALSE, alive |-> TRUE,
   request |-> NoError, submitted |-> FALSE, finishes |-> <<>>,
   delivered |-> 0, seen |-> None]

\* proceed() in status Create, as the constructor of every CALLDATA_IMPL
\* class calls it: the instance asks the service for its next request
ProceedCreate(cd) == [cd EXCEPT !.status = "Process", !.registered = TRUE]

\* variant: the replacement is created twice
AddNewCallDataTwice(cds, type) ==
  cds \o <<ProceedCreate(NewCallData(type)), ProceedCreate(NewCallData(type))>>

\* addNewCallData: new CallData##endpoint(service_, cq_, state_)
AddNewCallData(cds, type) == Append(cds, ProceedCreate(NewCallData(type)))

\* an event of the completion queue: the tag is the CallData's address
Event(tag, ok, kind) == [tag |-> tag, ok |-> ok, kind |-> kind]

\* CallDataUnary::finish: status_ = Finish, then responder_.Finish with the
\* instance as tag; the runtime delivers the completion with ok = FALSE when
\* the call is dead by then (cancelled, client gone)
Finish(g, i, status, ok) ==
  [g EXCEPT !.cds[i].status = "Finish",
            !.cds[i].finishes = Append(@, status),
            !.cq = Append(@, Event(i, ok, "finish"))]

\* handleRequest of instance i: ServerLive finishes at once, ModelInfer
\* finishes at once if the request cannot be built or submitted and else
\* leaves the call to the request's callback
HandleRequest(g, i, ok) ==
  LET cd == g.cds[i] IN
  IF cd.type = "ServerLive" THEN Finish(g, i, "OK", ok)
  ELSE IF cd.request # NoError
       THEN Finish(g, i, FinishModelInfer(cd.request), ok)
       ELSE [g EXCEPT !.cds[i].submitted = TRUE]

\* CallData::proceed on instance i, up to the assignment of Wait that
\* follows a handleRequest which left the call to a worker
Proceed(g, i, ok) ==
  LET cd == g.cds[i] IN
  IF cd.status = "Create" THEN [g EXCEPT !.cds[i] = ProceedCreate(cd)]
  ELSE IF cd.status = "Process"
  THEN LET added == [g EXCEPT !.cds = AddNewCallData(@, cd.type)]
           handled == HandleRequest(added, i, ok)
       IN  IF handled.cds[i].submitted
           THEN [handled EXCEPT !.thread = "assign", !.tag = i]
           ELSE [handled EXCEPT !.cds[i].status = "Wait"]
  ELSE IF cd.status = "Wait"
  THEN [g EXCEPT !.cds[i].delivered = @ + 1, !.cds[i].seen = "Wait"]
  ELSE [g EXCEPT !.cds[i].alive = FALSE, !.cds[i].delivered = @ + 1,
                 !.cds[i].seen = "Finish"]

\* handleRpcs up to its loop: one CallData per RPC type
HandleRpcsStart ==
  /\ grpc.thread = "start"
  /\ grpc' = [grpc EXCEPT
                !.cds = AddNewCallData(AddNewCallData(@, RpcTypes[1]),
                                       RpcTypes[2]),
                !.thread = "next"]
  /\ UNCHANGED <<planeVars, multi, pool, bat, wr, repo, cl, http, vt>>

\* the runtime matches an incoming RPC with the instance that waits for one
\* of its type
GrpcArrive(type, outcome) ==
  /\ ~grpc.shutdown
  /\ grpc.arrivals < MaxRpcs
  /\ \E i \in DOMAIN grpc.cds :
       /\ grpc.cds[i].type = type
       /\ grpc.cds[i].registered
       /\ grpc' = [grpc EXCEPT !.cds[i].registered = FALSE,
                               !.cds[i].request = outcome,
                               !.cq = Append(@, Event(i, TRUE, "request")),
                               !.arrivals = @ + 1]
  /\ UNCHANGED <<planeVars, multi, pool, bat, wr, repo, cl, http, vt>>

\* one iteration of handleRpcs' loop: Next, the test of ok and
\* event_received, proceed
HandleRpcsNext ==
  /\ grpc.thread = "next"
  /\ \/ /\ grpc.cq = <<>>
        /\ grpc.shutdown
        /\ grpc' = [grpc EXCEPT !.thread = "exited"]
     \/ /\ grpc.cq # <<>>
        /\ LET ev == Head(grpc.cq)
               g == [grpc EXCEPT !.cq = Tail(@)]
           IN  IF ~ev.ok
               THEN grpc' = [g EXCEPT !.thread = "exited"]
               ELSE \E ok \in BOOLEAN : grpc' = Proceed(g, ev.tag, ok)
  /\ UNCHANGED <<planeVars, multi, pool, bat, wr, repo, cl, http, vt>>

\* status_ = Wait after handleRequest has handed the request to a worker
HandleRpcsAssign ==
  /\ grpc.thread = "assign"
  /\ grpc' = [grpc EXCEPT !.cds[grpc.tag].status = "Wait",
                          !.thread = "next", !.tag = 0]
  /\ UNCHANGED <<planeVars, multi, pool, bat, wr, repo, cl, http, vt>>

\* a worker thread invokes the callback setCallback installed
GrpcCallback(i, response) ==
  /\ ~grpc.shutdown
  /\ i \in DOMAIN grpc.cds
  /\ grpc.cds[i].submitted
  /\ grpc.cds[i].finishes = <<>>
  /\ \E ok \in BOOLEAN :
       grpc' = Finish(grpc, i, SetCallback(response)[1], ok)
  /\ UNCHANGED <<planeVars, multi, pool, bat, wr, repo, cl, http, vt>>

\* ~GrpcServer: the shutdown of the server and of the queue hands back the
\* instances that wait for a request with ok = FALSE
GrpcShutdown ==
  /\ ~grpc.shutdown
  /\ grpc.thread # "start"
  /\ LET waiting == SelectSeq([i \in 1..Len(grpc.cds) |-> i],
                              LAMBDA i : grpc.cds[i].registered)
     IN  grpc' = [grpc EXCEPT
                    !.shutdown = TRUE,
                    !.cds = [i \in DOMAIN @ |->
                               [@[i] EXCEPT !.registered = FALSE]],
                    !.cq = @ \o [k \in 1..Len(waiting) |->
                                   Event(waiting[k], FALSE, "request")]]
  /\ UNCHANGED <<planeVars, multi, pool, bat, wr, repo, cl, http, vt>>

\* ~GrpcServer's own loop over cq->Next takes an event off the queue
GrpcDrain ==
  /\ grpc.shutdown
  /\ grpc.cq # <<>>
  /\ grpc' = [grpc EXCEPT !.cq = Tail(@)]
  /\ UNCHANGED <<planeVars, multi, pool, bat, wr, repo, cl, http, vt>>

NextGrpc ==
  \/ HandleRpcsStart
  \/ \E outcome \in InferOutcomes : GrpcArrive("ModelInfer", outcome)
  \/ GrpcArrive("ServerLive", NoError)
  \/ HandleRpcsNext
  \/ HandleRpcsAssign
  \/ \E i \in 1..(2 * MaxRpcs + 2), response \in CallbackResponses :
       GrpcCallback(i, response)
  \/ GrpcShutdown
  \/ GrpcDrain

SpecGrpc == Init /\ [][NextGrpc]_vars

----------------------------------------------------------------------------
(* The client's helpers inferAsyncOrdered and inferAsyncOrderedBatched.     *)
(* Request r of the list is the number r, the future modelInferAsync        *)
(* returns for it holds the response r once it has completed.               *)

MaxList == 3
MaxBatchSize == 4

\* variant: the future taken is the newest one
FrontIsBack(q) == q[Len(q)]

\* q.front()
Front(q) == q[1]

\* q.push(client->modelInferAsync(model, requests[r - 1]))
Push(c, r) ==
  [c EXCEPT !.q = Append(@, r), !.sent = Append(@, r),
            !.early = @ \/ c.waited,
            !.peak = IF Len(c.q) + 1 > @ THEN Len(c.q) + 1 ELSE @]

\* future.get() returns once the future at the front has completed
CanGet(c) == Front(c.q) \in Range(c.completed)

\* responses.push_back(future.get()); q.pop()
Pop(c) ==
  [c EXCEPT !.responses = Append(@, Front(c.q)), !.q = Tail(@),
            !.waited = TRUE, !.i = @ + 1]

\* front() and pop() of an empty std::queue are undefined: the call crashes,
\* hangs in get(), or goes on with a response of no request
EmptyFront(c) ==
  {[c EXCEPT !.pc = "crashed", !.empty_front = TRUE],
   [c EXCEPT !.pc = "hung", !.empty_front = TRUE],
   [c EXCEPT !.responses = Append(@, 0), !.empty_front = TRUE,
             !.waited = TRUE, !.i = @ + 1]}

\* one iteration of a loop that takes the futures off the queue
GetNext ==
  IF cl.q = <<>> THEN cl' \in EmptyFront(cl)
  ELSE CanGet(cl) /\ cl' = Pop(cl)

\* the helpers are entered with a list of n requests
ClStart(fn, n, batch_size) ==
  /\ cl.pc = "idle"
  /\ cl' = [NoClient EXCEPT !.fn = fn, !.n = n, !.batch_size = batch_size,
                            !.pc = IF fn = "ordered" THEN "push" ELSE "while"]
  /\ UNCHANGED <<planeVars, multi, pool, bat, wr, repo, grpc, http, vt>>

\* the server answers a submitted request: its future completes
ClComplete(r) ==
  /\ r \in Range(cl.sent)
  /\ r \notin Range(cl.completed)
  /\ cl' = [cl EXCEPT !.completed = Append(@, r)]
  /\ UNCHANGED <<planeVars, multi, pool, bat, wr, repo, grpc, http, vt>>

\* inferAsyncOrdered: the loop that submits, then the loop that collects
OrderedStep ==
  /\ cl.fn = "ordered"
  /\ \/ /\ cl.pc = "push"
        /\ cl' = IF cl.i < cl.n THEN [Push(cl, cl.i + 1) EXCEPT !.i = @ + 1]
                 ELSE [cl EXCEPT !.pc = "get", !.i = 0]
     \/ /\ cl.pc = "get"
        /\ IF cl.i < cl.n THEN GetNext
           ELSE cl' = [cl EXCEPT !.pc = "done"]
  /\ UNCHANGED <<planeVars, multi, pool, bat, wr, repo, grpc, http, vt>>

\* inferAsyncOrderedBatched: while (start_index + batch_size < num_requests)
BatchedWhile ==
  /\ cl.fn = "batched"
  /\ cl.pc = "while"
  /\ cl' = IF cl.start_index + cl.batch_size < cl.n
           THEN [cl EXCEPT !.pc = "bpush", !.i = cl.start_index]
           ELSE [cl EXCEPT !.pc = "tail"]
  /\ UNCHANGED <<planeVars, multi, pool, bat, wr, repo, grpc, http, vt>>

\* for (auto i = start_index; i < batch_size; ++i) q.push(...)
BatchedPush ==
  /\ cl.pc = "bpush"
  /\ cl' = IF cl.i < cl.batch_size
           THEN [Push(cl, cl.i + 1) EXCEPT !.i = @ + 1]
           ELSE [cl EXCEPT !.pc = "bpop", !.i = 0]
  /\ UNCHANGED <<planeVars, multi, pool, bat, wr, repo, grpc, http, vt>>

\* for (auto i = 0U; i < batch_size; ++i) { ... }, start_index += batch_size
BatchedPop ==
  /\ cl.pc = "bpop"
  /\ IF cl.i < cl.batch_size THEN GetNext
     ELSE cl' = [cl EXCEPT !.pc = "while",
                           !.start_index = @ + cl.batch_size]
  /\ UNCHANGED <<planeVars, multi, pool, bat, wr, repo, grpc, http, vt>>

\* if (start_index != num_requests) and the two loops over the rest
BatchedTail ==
  /\ \/ /\ cl.pc = "tail"
        /\ cl' = IF cl.start_index # cl.n
                 THEN [cl EXCEPT !.pc = "tpush", !.i = cl.start_index]
                 ELSE [cl EXCEPT !.pc = "done"]
     \/ /\ cl.pc = "tpush"
        /\ cl' = IF cl.i < cl.n THEN [Push(cl, cl.i + 1) EXCEPT !.i = @ + 1]
                 ELSE [cl EXCEPT !.pc = "tpop", !.i = 0]
     \/ /\ cl.pc = "tpop"
        /\ IF cl.i < cl.n - cl.start_index THEN GetNext
           ELSE cl' = [cl EXCEPT !.pc = "done"]
  /\ UNCHANGED <<planeVars, multi, pool, bat, wr, repo, grpc, http, vt>>

\* the thread that runs the helper
ClRun ==
  \/ OrderedStep
  \/ BatchedWhile
  \/ BatchedPush
  \/ BatchedPop
  \/ BatchedTail

NextClient ==
  \/ \E n \in 0..MaxList : ClStart("ordered", n, 0)
  \/ \E n \in 0..MaxList, batch_size \in 0..MaxBatchSize :
       ClStart("batched", n, batch_size)
  \/ \E r \in 1..MaxList : ClComplete(r)
  \/ ClRun

SpecClient == Init /\ [][NextClient]_vars

\* the calling thread keeps running and every submitted future completes
SpecClientLive ==
  /\ SpecClient
  /\ WF_vars(ClRun)
  /\ \A r \in 1..MaxList : WF_vars(ClComplete(r))

----------------------------------------------------------------------------
(* HttpClient::modelInferAsync: the promise, the future and the completion  *)
(* handler handed to Drogon's sendRequest.                                  *)

MaxFutures == 2

\* drogon::ReqResult
ReqResults ==
  {"Ok", "BadResponse", "NetworkFailure", "BadServerAddress", "Timeout",
   "HandshakeError", "InvalidCertificate"}

\* the replies of the server: the HTTP status (200 or another one) and the
\* body, which is empty, a JSON object, or text that is not JSON
HttpResponses ==
  {[status |-> s, body |-> b] : s \in {"200", "400"}, b \in {"", "json", "text"}}

NoException == [type |-> None, what |-> ""]

\* checkError: the exception it leaves with
CheckError(result) ==
  IF result = "Ok" THEN NoException
  ELSE IF result = "BadServerAddress"
       THEN [type |-> "connection_error",
             what |-> "Cannot connect to the server"]
       ELSE [type |-> "bad_status", what |-> result]

\* the exception classes: bad_status and connection_error both derive from
\* runtime_error, neither from the other
Catches(clause, type) == clause = type \/ clause = "runtime_error"

\* a future whose promise has not been touched
Pending(result, response) ==
  [result |-> result, response |-> response, handled |-> FALSE, sets |-> 0,
   value |-> None, escaped |-> None]

\* the try block of the completion handler: the exception raised in it
HandlerRaises(f) ==
  IF CheckError(f.result) # NoException THEN CheckError(f.result)
  ELSE IF f.response.status # "200"
       THEN [type |-> "bad_status", what |-> f.response.body]
       ELSE NoException

\* the completion handler run on the future: the states it can leave the
\* future in. mapJsonToResponse is given the null pointer jsonObject()
\* returns for a body that is not JSON, which is undefined: a value that is
\* no response of the server is set, or the handler is left without one
HandlerOutcomes(f) ==
  LET ex == HandlerRaises(f)
      done == [f EXCEPT !.handled = TRUE]
  IN  IF ex # NoException /\ ~Catches("bad_status", ex.type)
      THEN {[done EXCEPT !.escaped = ex.type]}
      ELSE IF ex.what # ""
      THEN {[done EXCEPT !.sets = @ + 1, !.value = "error"]}
      ELSE IF f.response.body = "json"
      THEN {[done EXCEPT !.sets = @ + 1, !.value = "decoded"]}
      ELSE {[done EXCEPT !.sets = @ + 1, !.value = "garbage"],
            [done EXCEPT !.escaped = "undefined"]}

\* modelInferAsync sends the request and returns the future; the transport
\* result and the reply are what the handler will be called with
ModelInferAsync(result, response) ==
  /\ Len(http) < MaxFutures
  /\ http' = Append(http, Pending(result, response))
  /\ UNCHANGED <<planeVars, multi, pool, bat, wr, repo, grpc, cl, vt>>

\* Drogon calls the completion handler of request k
HttpHandler(k) ==
  /\ k \in DOMAIN http
  /\ ~http[k].handled
  /\ \E f \in HandlerOutcomes(http[k]) : http' = [http EXCEPT ![k] = f]
  /\ UNCHANGED <<planeVars, multi, pool, bat, wr, repo, grpc, cl, vt>>

NextHttp ==
  \/ \E response \in HttpResponses : ModelInferAsync("Ok", response)
  \/ \E result \in ReqResults \ {"Ok"} : ModelInferAsync(result, None)
  \/ \E k \in 1..MaxFutures : HttpHandler(k)

SpecHttp == Init /\ [][NextHttp]_vars

----------------------------------------------------------------------------
(* VartTensorBuffer::data: the flat offset becomes the index vector that is *)
(* handed to the tensor buffer.                                             *)

MaxRank == 3
MaxDim == 3

\* the shapes of the tensor: one to MaxRank positive dims
Shapes ==
  UNION {[1..r -> 1..MaxDim] : r \in 1..MaxRank}

RECURSIVE Product(_, _)
\* dims[m] * ... * dims[size - 1], with the code's indices from 0
Product(dims, m) ==
  IF m >= Len(dims) THEN 1 ELSE dims[m + 1] * Product(dims, m + 1)

\* variant: the inner loop starts at m = k
StrideFromK(dims, k) == Product(dims, k)

\* stride = 1; for (m = k + 1; m < size; m++) stride *= dims[m]
Stride(dims, k) == Product(dims, k + 1)

\* data(offset) is entered: shape is a vector of zeros as long as the
\* tensor's shape
VartData(dims, offset) ==
  /\ vt.pc = "idle"
  /\ vt' = [pc |-> "loop", dims |-> dims, offset |-> offset, arg |-> offset,
            k |-> 0, shape |-> [m \in 1..Len(dims) |-> 0]]
  /\ UNCHANGED <<planeVars, multi, pool, bat, wr, repo, grpc, cl, http>>

\* one iteration of the loop over k, and the return with data_->data(shape)
VartStep ==
  /\ vt.pc = "loop"
  /\ IF vt.k < Len(vt.dims)
     THEN LET stride == Stride(vt.dims, vt.k)
              index == vt.offset \div stride
          IN  vt' = [vt EXCEPT !.shape[vt.k + 1] = index,
                               !.offset = @ - index * stride,
                               !.k = @ + 1]
     ELSE vt' = [vt EXCEPT !.pc = "done"]
  /\ UNCHANGED <<planeVars, multi, pool, bat, wr, repo, grpc, cl, http>>

NextVart ==
  \/ \E dims \in Shapes : \E offset \in 0..(Product(dims, 0) - 1) :
       VartData(dims, offset)
  \/ VartStep

SpecVart == Init /\ [][NextVart]_vars

----------------------------------------------------------------------------
(* Claims about the Echo run loop *)

ReqIds == 1..Len(requests)

InQueue(id) ==
  \/ \E i \in DOMAIN ingress[requests[id].wid] :
       ingress[requests[id].wid][i] = Container(id)
  \/ id \in Range(partial[requests[id].wid])
  \/ \E i \in DOMAIN batchq[requests[id].wid] :
       id \in Range(batchq[requests[id].wid][i].requests)

\* the request is in the batch the run loop holds, at or after index j
InLoop(id) ==
  LET w == requests[id].wid IN
  /\ wpc[w] = "process"
  /\ \E k \in DOMAIN wbatch[w] : k > wj[w] /\ wbatch[w][k] = id

\* C1: a request's callback has been invoked exactly once as soon as the run
\* loop's iteration for it is over, and not at all before: never zero times
\* for a request of a dequeued batch the loop is done with, never twice.
C1_CallbackExactlyOnce ==
  \A id \in ReqIds :
    Len(responses[id]) = IF InQueue(id) \/ InLoop(id) THEN 0 ELSE 1

\* a batch of two requests, one of them with a wrapping input, was answered
\* and the run thread has gone back to wait_dequeue
C1_Witness ==
  /\ Len(cbLog) >= 2
  /\ wpc[1] = "dequeue"
  /\ wj[1] = 2
  /\ \E id \in ReqIds :
       /\ Len(requests[id].inputs) = 2
       /\ Len(responses[id]) = 1
       /\ responses[id][1].error = None

\* a submitted before b by the same client to the same model
SubmittedInOrder(a, b) ==
  /\ a < b
  /\ requests[a].client = requests[b].client
  /\ requests[a].wid = requests[b].wid

\* a's callback was invoked before b's
AnsweredInOrder(a, b) ==
  \E i, k \in DOMAIN cbLog : i < k /\ cbLog[i] = a /\ cbLog[k] = b

\* the batcher puts the request into a batch
EntersBatch(id) == ShapesAgree(requests[id].wid, requests[id])

----------------------------------------------------------------------------
(* The control plane under fair scheduling: a thread inside load or unload   *)
(* goes on, and so do the batcher and run threads of every worker.           *)

Progress ==
  \/ \E t \in Threads : LoadInit(t)
  \/ \E t \in Threads : LoadAcquire(t)
  \/ \E t \in Threads : LoadSpawn(t)
  \/ \E t \in Threads : LoadInsert(t)
  \/ \E t \in Threads : UnloadJoin(t)
  \/ \E t \in Threads : UnloadRelease(t)
  \/ \E t \in Threads : UnloadDestroy(t)
  \/ \E w \in Wids : BatcherStop(w)
  \/ \E w \in Wids : RunDequeue(w)

\* the calls of the polling client of the model-list test
NextLive ==
  \/ \E t \in Threads, in \in LoadInputs : WorkerLoad(t, in[1], in[2], in[3])
  \/ \E t \in Threads, rpc \in UnloadRpcs, raw \in Names : Unload(t, rpc, raw)
  \/ \E t \in Threads : RpcModelList(t)
  \/ Progress

SpecLive == Init /\ [][NextLive]_vars /\ WF_vars(Progress)

----------------------------------------------------------------------------
(* Claims about the registry *)

LoadPcs == {"load_init", "load_acquire", "load_spawn", "load_insert"}
UnloadPcs == {"unload_join", "unload_release", "unload_destroy"}

\* an unload is tearing the named endpoint down
TearingDown(n) == \E t \in Threads : pc[t] \in UnloadPcs /\ cur[t].name = n

\* C3: with N the loads that returned an endpoint name and M the unloads of
\* it that have returned, the entry exists iff M < N, and its refcount is
\* N - M >= 1 (and 0 only inside the unload that removes it).
C3_RefcountIsLoadsMinusUnloads ==
  \A n \in NamesUniverse :
    /\ Exists(n) <=> hist[n].unloads < hist[n].loads
    /\ Cardinality({e \in endpoints : e.name = n}) <= 1
    /\ Exists(n) =>
         Entry(n).refcount =
           IF TearingDown(n) THEN 0 ELSE hist[n].loads - hist[n].unloads

\* two loads shared "echo" and one unload has given one reference back
C3_Witness ==
  /\ hist["echo"].loads = 2
  /\ hist["echo"].unloads = 1
  /\ Exists("echo")
  /\ Entry("echo").refcount = 1
  /\ mutex = None

NoDuplicates(seq) ==
  \A i, k \in DOMAIN seq : seq[i] = seq[k] => i = k

\* the step finishes a workerLoad call with OK
LoadReturns ==
  /\ reply'.rpc = "WorkerLoad"
  /\ reply'.status = "OK"
  /\ hist' # hist

\* C4: a sharing workerLoad whose key an entry already has returns that
\* entry's name and adds one to its refcount without adding an entry (two
\* such loads leave the refcount at 2), and modelList names every entry
\* exactly once and nothing else.
C4_SharedLoadAndList ==
  [][/\ NoDuplicates(HandleModelList.models')
     /\ Range(HandleModelList.models') = Names'
     /\ Len(HandleModelList.models') = Cardinality(endpoints')
     /\ (LoadReturns /\ CanShare(reply'.arg, reply'.params, reply'.share))
          => /\ \E n \in {e.name : e \in SameKey(reply'.arg, reply'.params)} :
                  /\ reply'.endpoint = n
                  /\ Entry(n)'.refcount = Entry(n).refcount + 1
             /\ Names' = Names
             /\ Len(workers') = Len(workers)]_vars

\* the second of two identical sharing loads has returned: one entry, one
\* worker, refcount 2, listed once
C4_Witness ==
  /\ reply.rpc = "WorkerLoad"
  /\ reply.status = "OK"
  /\ reply.share
  /\ reply.endpoint = "echo"
  /\ hist["echo"] = [loads |-> 2, unloads |-> 0]
  /\ Entry("echo").refcount = 2
  /\ Len(workers) = 1
  /\ HandleModelList.models = <<"echo">>

\* worker instances that are alive and were created by a sharing load of key
LiveSharedInstances(kind, params) ==
  {w \in Wids : /\ workers[w].kind = kind
                /\ workers[w].params = params
                /\ workers[w].share
                /\ workers[w].state # "Destroyed"}

ReadyAfterLastUnload ==
  /\ reply.rpc = "ModelReady"
  /\ reply.arg \in NamesUniverse
  /\ hist[reply.arg].loads > 0
  /\ hist[reply.arg].unloads = hist[reply.arg].loads

C7_ReadyNotFound ==
  reply.rpc = "ModelReady" =>
    /\ ~Exists(reply.arg) => reply.status = "NOT_FOUND" /\ ~reply.ready
    /\ reply.status = "OK" <=> Exists(reply.arg)
    /\ reply.status = "OK" <=> ModelReady(reply.arg).error = None

\* the name is asked for in another case than the loaded endpoint's
C7_Witness ==
  /\ reply.rpc = "ModelReady"
  /\ reply.arg = "Echo"
  /\ reply.status = "NOT_FOUND"
  /\ Exists("echo")

AllUnloaded ==
  /\ loadsLeft = 0
  /\ \A t \in Threads : pc[t] \notin LoadPcs
  /\ \A e \in endpoints : TearingDown(e.name)

\* C9: once every endpoint has been unloaded as often as it was loaded and
\* no load follows, modelList is eventually empty and stays empty.
C9_ListEventuallyEmpty ==
  AllUnloaded ~> [](HandleModelList.models = <<>>)

\* the last unload has been requested and awaits the run thread, which has
\* not seen the null batch yet
C9_Witness ==
  /\ AllUnloaded
  /\ endpoints # {}
  /\ \E t \in Threads : pc[t] = "unload_join" /\ wpc[cur[t].wid] = "dequeue"

\* the step finishes a workerLoad that created a worker
LoadCreates(t) == pc[t] = "load_insert" /\ pc'[t] = "idle"

\* C10: a workerLoad that creates a worker returns a name no entry had, the
\* bare worker kind if no endpoint of that kind existed, and modelReady of
\* the name is true as soon as the load has returned.
C10_NewEndpointName ==
  [][\A t \in Threads : LoadCreates(t) =>
       /\ reply'.rpc = "WorkerLoad" /\ reply'.status = "OK"
       /\ reply'.endpoint \notin Names
       /\ reply'.endpoint \in Names'
       /\ (\A e \in endpoints : e.kind # cur[t].kind)
            => reply'.endpoint = cur[t].kind
       /\ \A n \in NamesUniverse : reply'.endpoint = n =>
            HandleModelReady(n)' =
              [rpc |-> "ModelReady", arg |-> n, status |-> "OK",
               ready |-> TRUE]]_vars

\* a load that could not share got the suffixed name next to the bare one
C10_Witness ==
  /\ reply.rpc = "WorkerLoad"
  /\ reply.endpoint = "echo-1"
  /\ Names = {"echo", "echo-1"}

----------------------------------------------------------------------------
(* Claims about shutdown, rejection and the echo computation *)

\* the null request has been enqueued for the worker, or its batcher has
\* already passed it on
ShutdownBegun(w) ==
  \/ \E i \in DOMAIN ingress[w] : ingress[w][i].null
  \/ bpc[w] = "done"

\* the null request, if it is in the queue, is the queue's last element
SentinelLast(q) == \A i \in DOMAIN q : q[i].null => i = Len(q)

ThreadExited(id) == wpc[requests[id].wid] = "done"

\* the response the request gets when no unload interferes: the echo
\* response, or the batcher's error for a shape that disagrees
UndisturbedResponse(id) ==
  IF EntersBatch(id)
  THEN [id |-> id, model |-> "echo",
        outputs |-> EchoOutputs(requests[id], 1), error |-> None]
  ELSE ErrorResponse(requests[id], "InvalidArgument")

InferCall == Len(calls') = Len(calls) + 1
NewCall == calls'[Len(calls')]

\* C13: modelInfer on a name that is not in the registry fails at once with
\* NotFound: the call is finished exactly once, with NOT_FOUND, no request is
\* created or queued, no callback is invoked and the registry is unchanged.
C13_UnknownModelNotFound ==
  /\ [][InferCall /\ ~Exists(NewCall.name) =>
          /\ NewCall.kind = "NotFound"
          /\ NewCall.req = 0
          /\ NewCall.finishes = <<"NOT_FOUND">>
          /\ reply' = [rpc |-> "ModelInfer", arg |-> NewCall.name,
                       status |-> "NOT_FOUND"]
          /\ UNCHANGED <<requests, responses, cbLog, ingress, partial, batchq,
                         wbatch, endpoints, workers>>]_vars
  /\ [][\A i \in DOMAIN calls :
          calls[i].req = 0 => calls'[i] = calls[i]]_vars

\* "bogus" was asked for while a request for "echo" waited in the ingress
\* queue
C13_Witness ==
  /\ reply = [rpc |-> "ModelInfer", arg |-> "bogus", status |-> "NOT_FOUND"]
  /\ Exists("echo")
  /\ \E i \in DOMAIN calls :
       calls[i].name = "bogus" /\ calls[i].finishes = <<"NOT_FOUND">>
  /\ Len(ingress[1]) = 1
  /\ Len(requests) = 1

\* C14 as stated: a request with an empty input list is rejected at
\* modelInfer time with the InvalidArgument kind, which the client can tell
\* from the NotFound of an unknown model, and it enters no queue or batch.
C14_Original ==
  \A i \in DOMAIN calls :
    calls[i].kind = "InvalidArgument" =>
      /\ calls[i].req = 0
      /\ Len(calls[i].finishes) = 1
      /\ calls[i].finishes[1] \notin {"OK", "NOT_FOUND"}

\* the batcher takes the request at the head of w's ingress queue, and the
\* request's shape disagrees with the worker's metadata
TakesBadShape(w) ==
  /\ ingress[w] # <<>>
  /\ ~Head(ingress[w]).null
  /\ ingress'[w] = Tail(ingress[w])
  /\ ~ShapesAgree(w, requests[Head(ingress[w]).id])

\* C15: a request whose input shape disagrees with the worker's metadata is
\* failed through its own callback with an InvalidArgument error response
\* (which finishes its call once), it is in no batch at any time, and the
\* partial batch and the batch queue are as they were.
C15_BadShapeFailsLocally ==
  /\ [][\A w \in Wids : TakesBadShape(w) =>
          LET id == Head(ingress[w]).id IN
          /\ responses'[id] = <<ErrorResponse(requests[id], "InvalidArgument")>>
          /\ Len(calls'[requests[id].call].finishes) = 1
          /\ calls'[requests[id].call].finishes[1] # "OK"
          /\ partial'[w] = partial[w]
          /\ batchq'[w] = batchq[w]
          /\ \A other \in ReqIds \ {id} :
               responses'[other] = responses[other]]_vars
  /\ [](\A id \in ReqIds : ~EntersBatch(id) =>
          /\ id \notin Range(partial[requests[id].wid])
          /\ id \notin Range(wbatch[requests[id].wid])
          /\ \A i \in DOMAIN batchq[requests[id].wid] :
               id \notin Range(batchq[requests[id].wid][i].requests))

\* the request of shape [2] was failed while another request waited in the
\* partial batch, which was completed and answered afterwards
C15_Witness ==
  /\ Len(requests) = 3
  /\ requests[2].inputs = BadShape
  /\ cbLog = <<2, 1, 3>>
  /\ responses[2] = <<ErrorResponse(requests[2], "InvalidArgument")>>
  /\ responses[1][1].error = None
  /\ calls[requests[2].call].finishes = <<"UNKNOWN">>

\* output i of the response is the echo of input i of the request: dtype
\* UINT32, shape [1], the value plus one modulo 2^32, and the name of input
\* i unless the request names its output i
EchoesInput(req, resp, i) ==
  /\ resp.outputs[i].dtype = "UINT32"
  /\ resp.outputs[i].shape = <<1>>
  /\ resp.outputs[i].value = Increment(req.inputs[i].value)
  /\ resp.outputs[i].name =
       IF i <= Len(req.outputs) /\ req.outputs[i] # "" THEN req.outputs[i]
       ELSE req.inputs[i].name

\* C16 as stated: every response of the echo worker has as many outputs as
\* the request has inputs, and output i is UINT32 of shape [1], holds input
\* i's value plus one modulo 2^32 and is named after input tensor i when the
\* request names no output.
C16_Original ==
  \A id \in ReqIds :
    \A k \in DOMAIN responses[id] :
      responses[id][k].error = None =>
        /\ Len(responses[id][k].outputs) = Len(requests[id].inputs)
        /\ \A i \in DOMAIN requests[id].inputs :
             EchoesInput(requests[id], responses[id][k], i)

RECURSIVE Concat(_)
\* the tensors' elements one after the other, in tensor order
Concat(tensors) ==
  IF tensors = <<>> THEN <<>> ELSE Head(tensors) \o Concat(Tail(tensors))

\* C17: echo_multi fills its three outputs, of lengths 1, 4 and 3, so that
\* the element at global position p of the concatenated outputs is element
\* p mod 3 of the concatenated inputs: the replay index runs on from one
\* output tensor to the next.
C17_CyclicReplay ==
  LET A == Concat(multi.inputs)
      out == Concat(multi.new_inputs)
  IN  /\ multi.pc \in {"fill", "done"} =>
           \A p \in 0..(Len(out) - 1) : out[p + 1] = A[(p % 3) + 1]
      /\ multi.pc = "done" =>
           /\ Len(A) = 3
           /\ Len(multi.new_inputs) = 3
           /\ \A t \in 1..3 : Len(multi.new_inputs[t]) = kOutputLengths[t]

\* the inputs [10] and [20, 30] gave [10], [20, 30, 10, 20], [30, 10, 20]
C17_Witness ==
  /\ multi.pc = "done"
  /\ multi.inputs = <<(<<U32(0, 10)>>), <<U32(0, 20), U32(0, 30)>>>>
  /\ multi.new_inputs =
       <<(<<U32(0, 10)>>),
         <<U32(0, 20), U32(0, 30), U32(0, 10), U32(0, 20)>>,
         <<U32(0, 30), U32(0, 10), U32(0, 20)>>>>

----------------------------------------------------------------------------
(* Claims about the worker lifecycle and the batcher *)

\* position of a lifecycle state in the order of the state machine
StateIndex(state) == CHOOSE i \in 1..6 : LifecycleStates[i] = state

\* C18: a worker starts Uninitialized and its lifecycle state only moves
\* forward, one state at a time, along Uninitialized, Initialized, Acquired,
\* Running, Released, Destroyed; it is Released or Destroyed only after its
\* run thread has left its loop and has been joined.
C18_LifecycleForward ==
  /\ [][\A w \in 1..Len(workers') :
          IF w \in Wids
          THEN \/ workers'[w].state = workers[w].state
               \/ StateIndex(workers'[w].state) =
                    StateIndex(workers[w].state) + 1
          ELSE workers'[w].state = "Uninitialized"]_vars
  /\ [](\A w \in Wids :
          workers[w].state \in {"Released", "Destroyed"} =>
            workers[w].joined /\ wpc[w] = "done")

\* one worker went through all six states while a second one, loaded after
\* it, is Running
C18_Witness ==
  /\ Len(workers) = 2
  /\ workers[1].state = "Destroyed"
  /\ workers[1].joined
  /\ workers[2].state = "Running"

\* the batcher of w takes the null request in this step
StopStep(w) == bpc[w] = "run" /\ bpc'[w] = "done"

\* null batches the batcher of w has emitted: the one in the batch queue and
\* the one the run thread has taken
NullBatches(w) ==
  Cardinality({i \in DOMAIN batchq[w] : batchq[w][i].null}) +
    (IF wpc[w] = "done" THEN 1 ELSE 0)

\* C19: at the null request the batcher emits its partial batch, if it holds
\* one, and then the null batch; the null batch is the last batch of the
\* queue and the only null batch, so the run thread has answered every
\* batched request when it leaves its loop.
C19_PartialBeforeNullBatch ==
  /\ [][\A w \in Wids : StopStep(w) =>
          /\ partial[w] # <<>> =>
               batchq'[w] = batchq[w] \o <<Batch(partial[w]), NullBatch>>
          /\ partial[w] = <<>> => batchq'[w] = Append(batchq[w], NullBatch)
          /\ partial'[w] = <<>>]_vars
  /\ [](\A w \in Wids :
          /\ SentinelLast(batchq[w])
          /\ NullBatches(w) = IF bpc[w] = "done" THEN 1 ELSE 0
          /\ wpc[w] = "done" =>
               \A id \in ReqIds :
                 requests[id].wid = w /\ EntersBatch(id) =>
                   /\ Len(responses[id]) = 1
                   /\ responses[id][1].error = None)

\* the null request found one request in the partial batch of a batcher of
\* batch size 2, which was emitted ahead of the null batch
C19_Witness ==
  /\ bpc[1] = "done"
  /\ workers[1].batch_size = 2
  /\ Len(requests) = 1
  /\ Len(batchq[1]) = 2
  /\ batchq[1][1] = Batch(<<1>>)
  /\ batchq[1][2] = NullBatch
  /\ drained = {}

\* the batch size N of the worker's batcher: the batch_size parameter of
\* its load, 1 without it
BatchSizeN(w) ==
  IF workers[w].params.batch_size # 0 THEN workers[w].params.batch_size
  ELSE 1

\* the batcher of w emits a batch in this step; Emitted is the batch
Emits(w) == Len(batchq'[w]) > Len(batchq[w]) /\ bpc'[w] = "run"
Emitted(w) == batchq'[w][Len(batchq'[w])]

\* the request waits in the ingress queue or in the partial batch
Waiting(id) ==
  \/ \E i \in DOMAIN ingress[requests[id].wid] :
       ingress[requests[id].wid][i] = Container(id)
  \/ id \in Range(partial[requests[id].wid])

\* C20: every batch the hard batcher emits holds between 1 and N requests;
\* the batch is emitted in the step that collects its N-th request, so the
\* partial batch always holds fewer than N; the flush on timeout emits the
\* partial batch as it is, a single waiting request as a batch of size 1;
\* and no request waits forever in the ingress queue or the partial batch.
C20_HardBatcher ==
  /\ [](\A w \in Wids :
          /\ Len(partial[w]) < BatchSizeN(w)
          /\ \A i \in DOMAIN batchq[w] :
               ~batchq[w][i].null =>
                 /\ Len(batchq[w][i].requests) >= 1
                 /\ Len(batchq[w][i].requests) <= BatchSizeN(w))
  /\ [][\A w \in Wids : Emits(w) =>
          /\ ~Emitted(w).null
          /\ batchq'[w] = Append(batchq[w], Emitted(w))
          /\ IF ingress'[w] # ingress[w]
             THEN /\ Len(Emitted(w).requests) = BatchSizeN(w)
                  /\ Emitted(w).requests =
                       Append(partial[w], Head(ingress[w]).id)
             ELSE /\ partial[w] # <<>>
                  /\ Emitted(w).requests = partial[w]
          /\ partial'[w] = <<>>]_vars
  /\ \A id \in 1..MaxReq :
       (id \in ReqIds /\ Waiting(id)) ~> (id \in ReqIds /\ ~Waiting(id))

\* a single request waited in the partial batch of a batcher of batch size
\* 2 and the timeout emitted it as a batch of size 1
C20_Witness ==
  /\ workers[1].batch_size = 2
  /\ bpc[1] = "run"
  /\ Len(requests) = 1
  /\ partial[1] = <<>>
  /\ batchq[1] = <<Batch(<<1>>)>>
  /\ ~ShutdownBegun(1)

----------------------------------------------------------------------------
(* C21 *)

\* the position of the allocator the get that just returned chose
Chosen(r) == {i \in DOMAIN r.candidates : r.candidates[i] = r.allocator}

\* the get that just returned could have been served by candidate i
Servable(r, i) ==
  /\ r.candidates[i] \in pool.registered
  /\ pool.free[r.candidates[i]] >= r.size

\* C21: every buffer get returns comes from an allocator of the candidate
\* list, the first one in list order that is registered and can satisfy the
\* size; get with the candidates {Cpu} succeeds on a default-constructed pool;
\* and put accepts every loaned buffer back, which takes it off the loans
C21_GetPicksFirstCandidate ==
  /\ [](\A b \in pool.loans : ENABLED PoolPut(b))
  /\ [][pool'.gets = pool.gets + 1 =>
         LET r == pool'.last IN
         /\ r.ok =>
              /\ \E i \in Chosen(r) :
                    /\ Servable(r, i)
                    /\ \A j \in 1..(i - 1) : ~Servable(r, j)
              /\ \E b \in pool'.loans \ pool.loans :
                    b.allocator = r.allocator
         /\ (pool = DefaultPool /\ r.candidates = <<"Cpu">>) => r.ok]_vars
  /\ [][pool'.puts = pool.puts + 1 =>
         /\ Cardinality(pool'.loans) = Cardinality(pool.loans) - 1
         /\ pool'.loans \subseteq pool.loans]_vars

\* a buffer got with the candidates {Cpu} from a fresh pool was put back, and
\* a later get took the second candidate of its list
C21_Witness ==
  /\ pool.puts > 0
  /\ pool.last.ok
  /\ Len(pool.last.candidates) = 2
  /\ pool.last.allocator = pool.last.candidates[2]

----------------------------------------------------------------------------
(* C22 *)

\* the run loop is through with the request: it was answered and its batch
\* was handed to returnInputBuffers
Returned(id) ==
  /\ responses[id] # <<>>
  /\ ~InQueue(id)
  /\ id \notin Range(wbatch[requests[id].wid])

----------------------------------------------------------------------------
(* C23 *)

\* C23: the assertions of Batch::size never fail on a batch that was handed
\* on: the batch the batcher handed to run and the new_batch run handed on
\* have as many traces as requests when tracing is on and as many start
\* times as requests when metrics are on; and each iteration of run appends
\* exactly one trace and one time to new_batch
C23_SizeAssertionsHold ==
  /\ [](/\ bat.asserts
        /\ bat.pc \in {"ready", "run", "done"} => SizeAsserts(bat.batch)
        /\ bat.pc = "done" => SizeAsserts(bat.new_batch))
  /\ [][bat'.j = bat.j + 1 =>
         /\ bat.tracing =>
              Len(bat'.new_batch.traces) = Len(bat.new_batch.traces) + 1
         /\ bat.metrics =>
              Len(bat'.new_batch.start_times) =
                Len(bat.new_batch.start_times) + 1]_vars

\* with tracing and metrics on, size was called on both batches after run
\* went over two requests
C23_Witness ==
  /\ bat.tracing /\ bat.metrics
  /\ bat.pc = "done"
  /\ bat.sizes = 2
  /\ Len(bat.new_batch.requests) = 2
  /\ bat.new_batch.traces = <<1, 2>>
  /\ bat.batch.traces = <<0, 0>>

----------------------------------------------------------------------------
(* C30 *)

\* the places a buffer can be in: the batch's two sets, the caller's hands,
\* or destroyed
Owners(b) ==
  (IF b \in Range(bat.batch.input_buffers) THEN {"input_buffers"} ELSE {})
    \cup (IF b \in Range(bat.batch.output_buffers)
          THEN {"output_buffers"} ELSE {})
    \cup (IF b \in bat.held THEN {"caller"} ELSE {})
    \cup (IF b \in bat.destroyed THEN {"destroyed"} ELSE {})

\* C30: getInputBuffers and getOutputBuffers hand the whole set to the
\* caller and leave the batch with none of it (size 0, so that a second call
\* returns an empty set), the other set and the requests stay as they are,
\* and every buffer has exactly one owner at every moment
C30_BuffersChangeOwner ==
  /\ [](\A b \in 1..bat.nbuf : Cardinality(Owners(b)) = 1)
  /\ [][bat'.gets = bat.gets + 1 =>
         /\ bat'.batch.requests = bat.batch.requests
         /\ \/ /\ bat'.last = bat.batch.input_buffers
               /\ Len(bat'.batch.input_buffers) = 0
               /\ bat'.batch.output_buffers = bat.batch.output_buffers
            \/ /\ bat'.last = bat.batch.output_buffers
               /\ Len(bat'.batch.output_buffers) = 0
               /\ bat'.batch.input_buffers = bat.batch.input_buffers
         /\ Range(bat'.last) \subseteq bat'.held]_vars

\* the caller took two input buffers out of the batch, a second
\* getInputBuffers returned nothing, and the output buffer is still in the
\* batch
C30_Witness ==
  /\ bat.gets = 2
  /\ Cardinality(bat.held) = 2
  /\ bat.last = <<>>
  /\ bat.batch.input_buffers = <<>>
  /\ Len(bat.batch.output_buffers) = 1
  /\ Len(bat.batch.requests) = 2

----------------------------------------------------------------------------
(* C24 *)

\* the bytes of mem from byte offset on, n of them
BytesAt(mem, offset, n) == [k \in 1..n |-> mem[offset + k]]

----------------------------------------------------------------------------
(* C25 *)

\* the worker kind and the suffix the specification lists for each platform
Supported ==
  {<<"tensorflow_graphdef", "tfzendnn", ".pb">>,
   <<"pytorch_torchscript", "ptzendnn", ".pt">>,
   <<"onnx_onnxv1", "migraphx", ".onnx">>,
   <<"migraphx_mxr", "migraphx", ".mxr">>,
   <<"vitis_xmodel", "xmodel", ".xmodel">>}

\* parseModel gave each parsed config the worker kind and the suffix listed
\* for its platform, and rejected every other platform without a worker
\* parameter
ParsedAsListed ==
  \A r \in repo.parses :
    /\ r.error = None =>
         \E t \in Supported :
           /\ t[1] = r.platform
           /\ r.params.worker = t[2]
           /\ r.params.model.extension = t[3]
    /\ (r.error = None /\ r.platform = "tensorflow_graphdef") =>
         r.params.input_node # None /\ r.params.output_node # None
    /\ (\A t \in Supported : t[1] # r.platform) =>
         r.error # None /\ r.params.worker = None

----------------------------------------------------------------------------
(* C26 *)

\* the step handles an event
Handles == repo'.handled = repo.handled + 1

\* the step makes exactly one call, op of the event's model, and no other
CallsOnce(op) ==
  /\ Len(repo'.calls) = Len(repo.calls) + 1
  /\ SubSeq(repo'.calls, 1, Len(repo.calls)) = repo.calls
  /\ repo'.calls[Len(repo'.calls)].op = op
  /\ repo'.calls[Len(repo'.calls)].model = repo'.last.model

\* the event is action on a file named config.pbtxt
OnConfig(action) ==
  repo'.last.filename = "config.pbtxt" /\ repo'.last.action = action

\* parseModel rejected the config of the event's model
ParseFailed ==
  repo'.last.error \in
    {"file_not_found_error", "file_read_error", "invalid_argument"}

\* what the listener does for Delete and for the events it ignores, and
\* after a failure
ListenerFrame ==
  /\ OnConfig("Delete") => CallsOnce("unload")
  /\ ~(OnConfig("Add") \/ OnConfig("Delete")) =>
       repo'.calls = repo.calls /\ repo'.loaded = repo.loaded
  /\ repo'.last.error # None => repo'.loaded = repo.loaded

\* the listener is there to handle the next event
ListenerGoesOn ==
  repo.alive /\ (repo.handled < MaxEvents => ENABLED NextRepo)

----------------------------------------------------------------------------
(* C27 *)

\* the error-bearing responses the request's callback was invoked with
ErrorResponses(id) ==
  {k \in DOMAIN responses[id] : responses[id][k].error # None}

\* processing failed for the request: one of its videos cannot be opened
FailsToProcess(id) ==
  \E i \in DOMAIN requests[id].inputs : ~requests[id].inputs[i].opens

\* the run loop's iteration for the request is over
Processed(id) ==
  /\ responses[id] # <<>>
  /\ ~InQueue(id)
  /\ ~InLoop(id)

\* C27 as stated: a request never gets more than one error response, however
\* many of its inputs fail; a request whose processing failed has got
\* exactly one when the loop is through with it; and the loop has then gone
\* on to the next request
C27_Original ==
  \A id \in ReqIds :
    /\ Cardinality(ErrorResponses(id)) <= 1
    /\ (FailsToProcess(id) /\ Processed(id)) =>
         /\ Cardinality(ErrorResponses(id)) = 1
         /\ wpc[requests[id].wid] \in {"process", "dequeue", "done"} \/
              \E k \in DOMAIN wbatch[requests[id].wid] :
                k > wj[requests[id].wid] /\ wbatch[requests[id].wid][k] # id

----------------------------------------------------------------------------
(* C28 *)

\* C28 as stated: no error raised while a request is handled ends the run
\* loop, and a request whose handling raised has got an error response once
\* the loop has reached it
C28_Original ==
  /\ \A w \in Wids : wpc[w] # "raised"
  /\ \A id \in ReqIds :
       (GetKeyThrows(requests[id]) /\ ~InQueue(id) /\ ~InLoop(id)) =>
         ErrorResponses(id) # {}

----------------------------------------------------------------------------
(* C29 *)

\* the run thread has left its loop
LoopLeft(w) == wpc[w] \in {"done", "raised"}

\* C29 as stated, its safety half: the run loop is left only by dequeuing
\* the null batch, every request of a batch that was enqueued ahead of the
\* null batch has had its callback invoked by then, and no batch is
\* processed afterwards
C29_Original ==
  \A w \in Wids :
    LoopLeft(w) =>
      /\ wpc[w] = "done"
      /\ wbatch[w] = <<>>
      /\ \A id \in ReqIds :
           (requests[id].wid = w /\ EntersBatch(id) /\ ~InQueue(id)) =>
             responses[id] # <<>>
----------------------------------------------------------------------------
(* C31 *)

\* C31 as stated: a CallData whose finish completion has been delivered to
\* proceed was in status Finish at that moment and has been deallocated,
\* whether finish was called inside handleRequest or by a worker thread
C31_Original ==
  \A i \in DOMAIN grpc.cds :
    grpc.cds[i].delivered > 0 =>
      /\ grpc.cds[i].seen = "Finish"
      /\ ~grpc.cds[i].alive

----------------------------------------------------------------------------
(* C32 *)

\* the instances of the type that wait for a request
WaitingFor(type) ==
  {i \in DOMAIN grpc.cds : grpc.cds[i].type = type /\ grpc.cds[i].registered}

\* the instances of the type that were given a request the thread has not
\* taken from the queue yet
Accepted(type) ==
  {i \in DOMAIN grpc.cds :
     /\ grpc.cds[i].type = type
     /\ \E k \in DOMAIN grpc.cq : grpc.cq[k] = Event(i, TRUE, "request")}

\* handleRequest has run on the instance
Handled(i) == grpc.cds[i].submitted \/ grpc.cds[i].finishes # <<>>

InstancesOf(type) == {i \in DOMAIN grpc.cds : grpc.cds[i].type = type}

----------------------------------------------------------------------------
(* C33 *)

\* the worker is through with the request of the call
Answered(c) ==
  /\ calls[c].req # 0
  /\ ~InQueue(calls[c].req)
  /\ ~InLoop(calls[c].req)

\* C33 as stated: a ModelInfer call is never finished twice; a call the
\* handler rejects is finished by the handler; a call whose request the
\* worker is through with has been finished; and the callback finishes with
\* UNKNOWN for an error response and with OK otherwise
C33_Original ==
  \A c \in DOMAIN calls :
    /\ Len(calls[c].finishes) <= 1
    /\ calls[c].req = 0 => Len(calls[c].finishes) = 1
    /\ Answered(c) => Len(calls[c].finishes) = 1
    /\ calls[c].req # 0 =>
         \A k \in DOMAIN calls[c].finishes :
           calls[c].finishes[k] =
             IF responses[calls[c].req][k].error # None THEN "UNKNOWN"
             ELSE "OK"

----------------------------------------------------------------------------
(* C34 *)

\* C34 as stated: the handleRpcs thread leaves its loop only once the queue
\* has been shut down
C34_Original == grpc.thread = "exited" => grpc.shutdown

----------------------------------------------------------------------------
(* C38 *)

RECURSIVE StreamedCallbacks(_, _)
\* 1 + count for every input from the i-th on whose video opens
StreamedCallbacks(inputs, i) ==
  IF i > Len(inputs) THEN 0
  ELSE (IF inputs[i].opens THEN 1 + FrameCount(inputs[i]) ELSE 0) +
       StreamedCallbacks(inputs, i + 1)

\* the responses without an error the request's callback was invoked with
OrdinaryResponses(id) ==
  {k \in DOMAIN responses[id] : responses[id][k].error = None}

\* C38 as stated: no frame loop goes on for ever, and a request with the key
\* parameter that the run loop is through with has got 1 + count ordinary
\* responses for each of its inputs whose video opens
C38_Original ==
  /\ \A w \in Wids : wpc[w] # "spinning"
  /\ \A id \in ReqIds :
       (~GetKeyThrows(requests[id]) /\ Processed(id)) =>
         Cardinality(OrdinaryResponses(id)) =
           StreamedCallbacks(requests[id].inputs, 1)

----------------------------------------------------------------------------
(* C35 *)

\* element k of the sequence is k: requests in list order, each once, or
\* responses each at the place of its request
InListOrder(seq) == \A k \in DOMAIN seq : seq[k] = k

\* C35: inferAsyncOrdered submits the requests in list order, all of them
\* before it waits on a response, never reads an empty queue, and returns
\* one response per request with response i that of request i, whatever
\* the order the futures complete in.
C35_OrderedResponses ==
  cl.fn = "ordered" =>
    /\ InListOrder(cl.sent)
    /\ ~cl.early
    /\ cl.waited => Len(cl.sent) = cl.n
    /\ ~cl.empty_front
    /\ InListOrder(cl.responses)
    /\ cl.pc = "done" => Len(cl.responses) = cl.n

C35_Witness ==
  /\ cl.fn = "ordered"
  /\ cl.pc = "done"
  /\ cl.completed = <<3, 1, 2>>
  /\ cl.responses = <<1, 2, 3>>

----------------------------------------------------------------------------
(* C36 *)

\* C36 as stated: with batch_size >= 1, inferAsyncOrderedBatched submits the
\* requests in list order, each once, has never more than batch_size
\* futures outstanding, never takes a future from an empty queue, and
\* returns n responses with response i that of request i
C36_Original ==
  (cl.fn = "batched" /\ cl.batch_size >= 1) =>
    /\ InListOrder(cl.sent)
    /\ cl.peak <= cl.batch_size
    /\ ~cl.empty_front
    /\ InListOrder(cl.responses)
    /\ cl.pc = "done" =>
         /\ Len(cl.sent) = cl.n
         /\ Len(cl.responses) = cl.n

----------------------------------------------------------------------------
(* C37 *)

\* C37 as stated: every call of inferAsyncOrderedBatched returns, whatever
\* the batch size, when the futures it submitted complete (a call that has
\* read an empty queue is left aside: what it does then is undefined)
C37_Original == (cl.fn = "batched") ~> (cl.pc = "done" \/ cl.empty_front)

----------------------------------------------------------------------------
(* C39 *)

\* C39 as stated: once the completion handler of a request has run, its
\* promise has been set exactly once, to the decoded response or to an
\* error-bearing response, and no exception has left the handler
C39_Original ==
  \A k \in DOMAIN http :
    /\ http[k].sets <= 1
    /\ http[k].handled =>
         /\ http[k].sets = 1
         /\ http[k].escaped = None
         /\ http[k].value \in {"decoded", "error"}

----------------------------------------------------------------------------
(* C40 *)

RECURSIVE RowMajor(_, _, _)
\* the flat offset of the first k indices of idx in a row-major tensor of
\* shape dims
RowMajor(dims, idx, k) ==
  IF k = 0 THEN 0 ELSE RowMajor(dims, idx, k - 1) * dims[k] + idx[k]

\* C40: for a shape of positive dims and an offset below their product, the
\* index vector data() computes lies inside the shape in every dimension and
\* is the row-major multi-index of the offset.
C40_OffsetToRowMajorIndex ==
  vt.pc = "done" =>
    /\ Len(vt.shape) = Len(vt.dims)
    /\ \A k \in DOMAIN vt.dims : 0 <= vt.shape[k] /\ vt.shape[k] < vt.dims[k]
    /\ RowMajor(vt.dims, vt.shape, Len(vt.dims)) = vt.arg

C40_Witness ==
  /\ vt.pc = "done"
  /\ vt.dims = <<2, 3, 2>>
  /\ vt.arg = 9
  /\ vt.shape = <<1, 1, 1>>

====
